---- MODULE Spec2Model ----
(***************************************************************************)
(* Inventory core of the multi-tenant inventory backend: the InventoryItem *)
(* value object, InventoryManagementService (add_to_inventory,            *)
(* remove_from_inventory) and the Django adapters behind its three ports,  *)
(* run by concurrent request workers against one shared database.          *)
(***************************************************************************)
EXTENDS Integers, Sequences, FiniteSets, TLC

\* ------------------------------------------------------------------ bounds
\* largest quantity a request may carry (requests carry -1 .. MaxQty)
MaxQty == 1
\* number of inventory service calls started in one behaviour
MaxCalls == 3

\* longest text handed to Currency.from_code
MaxCodeLen == 5
\* most features in a features argument
MaxFeatures == 2
\* most entries in a prices argument
MaxPrices == 3
\* digits of a Decimal result: the precision of the decimal context, which is
\* 28 in the program and which no statement of it changes
MaxDigits == 6

Nits == {"900100100", "900200200"}
Codes == {"PROD001", "PROD003"}
Procs == {"w1", "w2"}
Quantities == -1 .. MaxQty

\* Python's None for an optional InventoryItem; Some(x) is a present value.
None == <<>>
Some(x) == <<x>>

VARIABLES
    companies,      \* table companies: the set of persisted nits (primary key)
    products,       \* table products: rows [code, company], primary key code
    inventory,      \* table inventory: rows [company, product, quantity]
    pc,             \* per worker: where its service call stands
    req,            \* per worker: the arguments of the running call
    updated_item,   \* per worker: the local updated_item, once computed
    result,         \* per worker: outcome of its latest call
    trace,          \* per worker: port calls made by its latest call, in order
    saves,          \* per worker: items handed to inventory_repository.save
    calls,          \* number of service calls started
    ledger,         \* per pair: quantities successfully added minus removed
    applied         \* a call of the product side: function, arguments, outcome

vars == <<companies, products, inventory, pc, req, updated_item, result,
          trace, saves, calls, ledger, applied>>

Pairs == Nits \X Codes

\* ------------------------------------------------------------ domain errors
InvalidCompanyError == "InvalidCompanyError"
InvalidProductError == "InvalidProductError"
InvalidInventoryError == "InvalidInventoryError"

\* What an expression evaluates to: a returned value or a raised error, whose
\* message is the sequence of the segments of its (f-)string.
Raise(kind, msg) == [kind |-> kind, msg |-> msg, item |-> None]
Return(item) == [kind |-> "ok", msg |-> <<>>, item |-> Some(item)]

\* What a worker's call came to: the method, and what it returned or raised.
Outcome(op, r) == [op |-> op, kind |-> r.kind, msg |-> r.msg, item |-> r.item]
Pending == [op |-> "", kind |-> "pending", msg |-> <<>>, item |-> None]
NoCall == [op |-> "", kind |-> "none", msg |-> <<>>, item |-> None]
NoReq == [op |-> "", company_nit |-> "", product_code |-> "", quantity |-> 0]

Found(option) == [kind |-> "ok", msg |-> <<>>, item |-> option]

Failed(r) == r.kind \in {InvalidCompanyError, InvalidProductError, InvalidInventoryError}

\* ------------------------------------------------------------ InventoryItem
\* str.strip() leaves nothing: the identifiers of this model are never blank
\* except the empty string.
IsBlank(s) == s = ""

\* InventoryItem whose __post_init__ requires a positive quantity.
InventoryItem_requires_positive(company_nit, product_code, quantity) ==
    IF IsBlank(company_nit)
    THEN Raise(InvalidInventoryError, <<"Company NIT is required">>)
    ELSE IF IsBlank(product_code)
    THEN Raise(InvalidInventoryError, <<"Product code is required">>)
    ELSE IF quantity <= 0
    THEN Raise(InvalidInventoryError, <<"Quantity cannot be negative">>)
    ELSE Return([company_nit |-> company_nit, product_code |-> product_code,
                 quantity |-> quantity])

\* InventoryItem whose __post_init__ lacks the check of the quantity.
InventoryItem_without_quantity_check(company_nit, product_code, quantity) ==
    IF IsBlank(company_nit)
    THEN Raise(InvalidInventoryError, <<"Company NIT is required">>)
    ELSE IF IsBlank(product_code)
    THEN Raise(InvalidInventoryError, <<"Product code is required">>)
    ELSE Return([company_nit |-> company_nit, product_code |-> product_code,
                 quantity |-> quantity])

\* The dataclass constructor with __post_init__: a value or a raised error.
InventoryItem(company_nit, product_code, quantity) ==
    IF IsBlank(company_nit)
    THEN Raise(InvalidInventoryError, <<"Company NIT is required">>)
    ELSE IF IsBlank(product_code)
    THEN Raise(InvalidInventoryError, <<"Product code is required">>)
    ELSE IF quantity < 0
    THEN Raise(InvalidInventoryError, <<"Quantity cannot be negative">>)
    ELSE Return([company_nit |-> company_nit, product_code |-> product_code,
                 quantity |-> quantity])

\* increase that accepts a delta of 0.
increase_allows_zero(self, delta) ==
    IF delta < 0
    THEN Raise(InvalidInventoryError, <<"Increment must be positive">>)
    ELSE [kind |-> "ok", msg |-> <<>>,
          item |-> Some([self EXCEPT !.quantity = self.quantity + delta])]

\* increase that builds the new item from the delta alone.
increase_to_delta(self, delta) ==
    IF delta <= 0
    THEN Raise(InvalidInventoryError, <<"Increment must be positive">>)
    ELSE [kind |-> "ok", msg |-> <<>>,
          item |-> Some([self EXCEPT !.quantity = delta])]

increase(self, delta) ==
    IF delta <= 0
    THEN Raise(InvalidInventoryError, <<"Increment must be positive">>)
    ELSE InventoryItem(self.company_nit, self.product_code, self.quantity + delta)

\* decrease that removes what there is when asked for more.
decrease_clamped(self, delta) ==
    IF delta <= 0
    THEN Raise(InvalidInventoryError, <<"Decrement must be positive">>)
    ELSE IF delta > self.quantity
    THEN InventoryItem(self.company_nit, self.product_code, 0)
    ELSE InventoryItem(self.company_nit, self.product_code, self.quantity - delta)

decrease(self, delta) ==
    IF delta <= 0
    THEN Raise(InvalidInventoryError, <<"Decrement must be positive">>)
    ELSE IF delta > self.quantity
    THEN Raise(InvalidInventoryError, <<"Insufficient stock">>)
    ELSE InventoryItem(self.company_nit, self.product_code, self.quantity - delta)

\* ------------------------------------------------------------ the adapters
\* DjangoCompanyRepository.exists
company_exists(nit) == nit \in companies

\* exists that looks for the code under any company.
product_exists_anywhere(code, company_nit) ==
    \E r \in products : r.code = code

\* DjangoProductRepository.exists: code AND owning company
product_exists(code, company_nit) ==
    \E r \in products : r.code = code /\ r.company = company_nit

Rows(company_nit, product_code) ==
    {r \in inventory : r.company = company_nit /\ r.product = product_code}

\* DjangoInventoryRepository.find: the item, None, or the error the entity's
\* constructor raises on the stored quantity.
find(company_nit, product_code) ==
    IF Rows(company_nit, product_code) = {}
    THEN Found(None)
    ELSE LET row == CHOOSE r \in Rows(company_nit, product_code) : TRUE
             made == InventoryItem(company_nit, product_code, row.quantity)
         IN  made

\* get_or_create in the place of update_or_create: a row that exists is kept.
get_or_create(rows, company_nit, product_code, quantity) ==
    IF \E r \in rows : r.company = company_nit /\ r.product = product_code
    THEN rows
    ELSE rows \cup {[company |-> company_nit, product |-> product_code,
                     quantity |-> quantity]}

\* create in the place of update_or_create, on a table with no unique key.
create_row(rows, company_nit, product_code, quantity) ==
    rows \cup {[company |-> company_nit, product |-> product_code,
                quantity |-> quantity]}

\* QuerySet.update_or_create(company=, product=, defaults={'quantity': q})
update_or_create(rows, company_nit, product_code, quantity) ==
    IF \E r \in rows : r.company = company_nit /\ r.product = product_code
    THEN {IF r.company = company_nit /\ r.product = product_code
          THEN [r EXCEPT !.quantity = quantity] ELSE r : r \in rows}
    ELSE rows \cup {[company |-> company_nit, product |-> product_code,
                     quantity |-> quantity]}

\* DjangoInventoryRepository.save: the rows of table inventory afterwards, or
\* the error it raises (the rows are then the ones before).
save(item) ==
    IF item.company_nit \notin companies
    THEN [raised |-> Some(Raise(InvalidCompanyError,
              <<"Cannot save inventory: Company with NIT '", item.company_nit,
                "' does not exist">>)),
          rows |-> inventory]
    ELSE IF ~ \E r \in products : r.code = item.product_code
    THEN [raised |-> Some(Raise(InvalidProductError,
              <<"Cannot save inventory: Product '", item.product_code,
                "' does not exist">>)),
          rows |-> inventory]
    ELSE [raised |-> None,
          rows |-> update_or_create(inventory, item.company_nit,
                                    item.product_code, item.quantity)]

\* ------------------------------------------------------------ state
\* ------------------------------------------------------------ str
\* A Python str is the sequence of its characters; an argument that may be
\* None is None or Some(str).
Whitespace == {" "}

RECURSIVE lstrip(_)
lstrip(s) == IF s # <<>> /\ Head(s) \in Whitespace THEN lstrip(Tail(s)) ELSE s

RECURSIVE rstrip(_)
rstrip(s) ==
    IF s # <<>> /\ s[Len(s)] \in Whitespace
    THEN rstrip(SubSeq(s, 1, Len(s) - 1))
    ELSE s

\* str.strip()
strip(s) == rstrip(lstrip(s))

Lowercase == <<"a", "b", "c", "d", "e", "f", "g", "h", "i", "j", "k", "l", "m",
               "n", "o", "p", "q", "r", "s", "t", "u", "v", "w", "x", "y", "z">>
Uppercase == <<"A", "B", "C", "D", "E", "F", "G", "H", "I", "J", "K", "L", "M",
               "N", "O", "P", "Q", "R", "S", "T", "U", "V", "W", "X", "Y", "Z">>

\* str.upper()
upper(s) ==
    [i \in 1 .. Len(s) |->
        IF \E j \in 1 .. Len(Lowercase) : Lowercase[j] = s[i]
        THEN Uppercase[CHOOSE j \in 1 .. Len(Lowercase) : Lowercase[j] = s[i]]
        ELSE s[i]]

\* The characters of a str in one piece: a key of a table, a segment of a
\* message.
RECURSIVE Chars(_)
Chars(s) == IF s = <<>> THEN "" ELSE Head(s) \o Chars(Tail(s))

\* What an f-string prints for an argument that may be None.
Format(value) == IF value = None THEN "None" ELSE Chars(value[1])

InvalidPriceError == "InvalidPriceError"
ValueError == "ValueError"
IntegrityError == "IntegrityError"
InvalidOperation == "InvalidOperation"

\* ------------------------------------------------------------ Currency
USD == <<"U", "S", "D">>
EUR == <<"E", "U", "R">>
COP == <<"C", "O", "P">>
Currency == {USD, EUR, COP}

\* from_code that looks the code up as given.
from_code_as_given(code) ==
    LET normalized == IF code = None THEN <<>> ELSE code[1]
    IN  IF normalized \in Currency
        THEN Return(normalized)
        ELSE Raise(ValueError, <<"Unsupported currency code: ", Chars(normalized)>>)

\* Currency.from_code: the member whose value is the normalized code
from_code(code) ==
    LET normalized == upper(strip(IF code = None THEN <<>> ELSE code[1]))
    IN  IF normalized \in Currency
        THEN Return(normalized)
        ELSE Raise(ValueError, <<"Unsupported currency code: ", Chars(normalized)>>)

\* ------------------------------------------------------------ Money
\* An amount is Some(n), a number of n thousandths that Decimal() accepts, or
\* None, a value Decimal() rejects (None itself, the text 'abc').
\* Decimal.quantize(Decimal("0.01"), ROUND_HALF_UP), in hundredths
quantize(thousandths) ==
    IF thousandths >= 0
    THEN (thousandths + 5) \div 10
    ELSE - ((5 - thousandths) \div 10)

\* The first number of hundredths that quantize cannot return: its result
\* would have more digits than the context's precision, and the decimal
\* module raises InvalidOperation.
Limit == 10 ^ MaxDigits

\* Money._normalize_amount: the try covers Decimal(value) only, so quantize's
\* InvalidOperation leaves the function as it is.
_normalize_amount(value) ==
    IF value = None
    THEN Raise(InvalidPriceError, <<"Invalid price amount">>)
    ELSE IF quantize(value[1]) >= Limit \/ quantize(value[1]) <= - Limit
    THEN Raise(InvalidOperation, <<>>)
    ELSE Return(quantize(value[1]))

\* Money(amount, currency) with __post_init__; type tells isinstance apart.
Money(amount, currency) ==
    LET normalized == _normalize_amount(amount)
    IN  IF normalized.kind # "ok" THEN normalized
        ELSE IF normalized.item[1] <= 0
        THEN Raise(InvalidPriceError, <<"Amount must be greater than zero">>)
        ELSE Return([type |-> "Money", amount |-> normalized.item[1],
                     currency |-> currency])

\* Money.add: the sum of two amounts in hundredths is exact, or has more
\* digits than the precision and then fails in quantize.
add(self, other) ==
    IF self.currency # other.currency
    THEN Raise(InvalidPriceError,
               <<"Cannot add amounts with different currencies">>)
    ELSE Money(Some(10 * (self.amount + other.amount)), self.currency)

\* ------------------------------------------------------------ Company
\* str.replace(old, "") for a one-character old
replace(s, old) == SelectSeq(s, LAMBDA ch : ch # old)

Digits == {"0", "1", "2", "3", "4", "5", "6", "7", "8", "9"}
\* str.isdigit(): false of the empty text
isdigit(s) == s # <<>> /\ \A n \in 1 .. Len(s) : s[n] \in Digits

\* company._normalize_text: value is None or Some(str)
company_normalize_text(value, field_name) ==
    IF value = None
    THEN Raise(InvalidCompanyError, <<field_name, " is required">>)
    ELSE IF strip(value[1]) = <<>>
    THEN Raise(InvalidCompanyError, <<field_name, " is required">>)
    ELSE Return(strip(value[1]))

\* Company that stores the phone as it checks it, without '+' and spaces.
Company_stores_digits(nit, name, address, phone) ==
    LET normalized_nit == company_normalize_text(nit, "NIT")
        normalized_name == company_normalize_text(name, "Name")
        normalized_address == company_normalize_text(address, "Address")
        normalized_phone == company_normalize_text(phone, "Phone")
    IN  IF normalized_nit.kind # "ok" THEN normalized_nit
        ELSE IF Len(normalized_nit.item[1]) < 5
        THEN Raise(InvalidCompanyError, <<"NIT must have at least 5 characters">>)
        ELSE IF normalized_name.kind # "ok" THEN normalized_name
        ELSE IF normalized_address.kind # "ok" THEN normalized_address
        ELSE IF normalized_phone.kind # "ok" THEN normalized_phone
        ELSE IF ~ isdigit(replace(replace(normalized_phone.item[1], "+"), " "))
        THEN Raise(InvalidCompanyError,
                   <<"Phone must contain only digits and optional '+'.">>)
        ELSE Return([nit |-> normalized_nit.item[1],
                     name |-> normalized_name.item[1],
                     address |-> normalized_address.item[1],
                     phone |-> replace(replace(normalized_phone.item[1], "+"), " ")])

\* Company(nit, name, address, phone) with __post_init__
Company(nit, name, address, phone) ==
    LET normalized_nit == company_normalize_text(nit, "NIT")
        normalized_name == company_normalize_text(name, "Name")
        normalized_address == company_normalize_text(address, "Address")
        normalized_phone == company_normalize_text(phone, "Phone")
    IN  IF normalized_nit.kind # "ok" THEN normalized_nit
        ELSE IF Len(normalized_nit.item[1]) < 5
        THEN Raise(InvalidCompanyError, <<"NIT must have at least 5 characters">>)
        ELSE IF normalized_name.kind # "ok" THEN normalized_name
        ELSE IF normalized_address.kind # "ok" THEN normalized_address
        ELSE IF normalized_phone.kind # "ok" THEN normalized_phone
        ELSE IF ~ isdigit(replace(replace(normalized_phone.item[1], "+"), " "))
        THEN Raise(InvalidCompanyError,
                   <<"Phone must contain only digits and optional '+'.">>)
        ELSE Return([nit |-> normalized_nit.item[1],
                     name |-> normalized_name.item[1],
                     address |-> normalized_address.item[1],
                     phone |-> normalized_phone.item[1]])

\* ------------------------------------------------------------ Product
\* _normalize_text that reports a missing text as a price error.
_normalize_text_as_price_error(value, field_name) ==
    IF value = None \/ strip(value[1]) = <<>>
    THEN Raise(InvalidPriceError, <<field_name, " is required">>)
    ELSE Return(strip(value[1]))

\* product._normalize_text: value is None or Some(str)
_normalize_text(value, field_name) ==
    IF value = None
    THEN Raise(InvalidProductError, <<field_name, " is required">>)
    ELSE IF strip(value[1]) = <<>>
    THEN Raise(InvalidProductError, <<field_name, " is required">>)
    ELSE Return(strip(value[1]))

\* product._normalize_features: the generator stops at the first item that
\* raises.
RECURSIVE _normalize_features(_)
_normalize_features(features) ==
    IF features = <<>> THEN Return(<<>>)
    ELSE LET item == _normalize_text(Head(features), "Feature")
             others == _normalize_features(Tail(features))
         IN  IF item.kind # "ok" THEN item
             ELSE IF others.kind # "ok" THEN others
             ELSE Return(<<item.item[1]>> \o others.item[1])

\* The loop over prices.items() that lets a later entry replace an earlier
\* one of the same normalized key.
RECURSIVE normalized_prices_last_wins(_, _)
normalized_prices_last_wins(items, normalized) ==
    IF items = <<>> THEN Return(normalized)
    ELSE LET price == Head(items)[2]
             code_key == upper(strip(Head(items)[1]))
             others == SelectSeq(normalized, LAMBDA e : e[1] # code_key)
         IN  IF price.type # "Money"
             THEN Raise(InvalidPriceError, <<"Price must be a Money object">>)
             ELSE normalized_prices_last_wins(Tail(items),
                                              Append(others, <<code_key, price>>))

\* The loop of Product.__post_init__ over prices.items(), a dict being the
\* sequence of its <<key, value>> entries in insertion order.
RECURSIVE normalized_prices(_, _)
normalized_prices(items, normalized) ==
    IF items = <<>> THEN Return(normalized)
    ELSE LET price == Head(items)[2]
             code_key == upper(strip(Head(items)[1]))
         IN  IF price.type # "Money"
             THEN Raise(InvalidPriceError, <<"Price must be a Money object">>)
             ELSE IF \E i \in 1 .. Len(normalized) : normalized[i][1] = code_key
             THEN Raise(InvalidPriceError,
                        <<"Duplicated price for currency is not allowed">>)
             ELSE normalized_prices(Tail(items),
                                    Append(normalized, <<code_key, price>>))

\* Product that validates company_nit along with the other texts, ahead of
\* the prices.
Product_texts_first(code, name, features, prices, company_nit) ==
    LET normalized_code == _normalize_text(code, "Code")
        normalized_name == _normalize_text(name, "Name")
        normalized_features ==
            _normalize_features(IF features = None THEN <<>> ELSE features[1])
        prices_by_key ==
            normalized_prices(IF prices = None THEN <<>> ELSE prices[1], <<>>)
        normalized_company == _normalize_text(company_nit, "Company NIT")
    IN  IF normalized_code.kind # "ok" THEN normalized_code
        ELSE IF normalized_name.kind # "ok" THEN normalized_name
        ELSE IF normalized_features.kind # "ok" THEN normalized_features
        ELSE IF normalized_company.kind # "ok" THEN normalized_company
        ELSE IF prices = None \/ prices = Some(<<>>)
        THEN Raise(InvalidPriceError, <<"At least one price is required">>)
        ELSE IF prices_by_key.kind # "ok" THEN prices_by_key
        ELSE Return([code |-> normalized_code.item[1],
                     name |-> normalized_name.item[1],
                     features |-> normalized_features.item[1],
                     prices |-> prices_by_key.item[1],
                     company_nit |-> normalized_company.item[1]])

\* Product(code, name, features, prices, company_nit) with __post_init__:
\* features is None or Some(tuple), prices is None or Some(dict).
Product(code, name, features, prices, company_nit) ==
    LET normalized_code == _normalize_text(code, "Code")
        normalized_name == _normalize_text(name, "Name")
        normalized_features ==
            _normalize_features(IF features = None THEN <<>> ELSE features[1])
        prices_by_key ==
            normalized_prices(IF prices = None THEN <<>> ELSE prices[1], <<>>)
        normalized_company == _normalize_text(company_nit, "Company NIT")
    IN  IF normalized_code.kind # "ok" THEN normalized_code
        ELSE IF normalized_name.kind # "ok" THEN normalized_name
        ELSE IF normalized_features.kind # "ok" THEN normalized_features
        ELSE IF prices = None \/ prices = Some(<<>>)
        THEN Raise(InvalidPriceError, <<"At least one price is required">>)
        ELSE IF prices_by_key.kind # "ok" THEN prices_by_key
        ELSE IF normalized_company.kind # "ok" THEN normalized_company
        ELSE Return([code |-> normalized_code.item[1],
                     name |-> normalized_name.item[1],
                     features |-> normalized_features.item[1],
                     prices |-> prices_by_key.item[1],
                     company_nit |-> normalized_company.item[1]])

\* No call of the product side is under way.
NoOutcome == [kind |-> "pending", msg |-> <<>>, item |-> None]
NotApplied == [fn |-> "", args |-> <<>>, done |-> TRUE, out |-> NoOutcome]

\* The call of fn on args, not yet evaluated.
Call(fn, args) == [fn |-> fn, args |-> args, done |-> FALSE, out |-> NoOutcome]

\* Empty tables, and no worker has called the inventory service yet.
EmptyDatabase ==
    /\ companies = {}
    /\ products = {}
    /\ inventory = {}
    /\ pc = [p \in Procs |-> "idle"]
    /\ req = [p \in Procs |-> NoReq]
    /\ updated_item = [p \in Procs |-> None]
    /\ result = [p \in Procs |-> NoCall]
    /\ trace = [p \in Procs |-> <<>>]
    /\ saves = [p \in Procs |-> <<>>]
    /\ calls = 0
    /\ ledger = [k \in Pairs |-> 0]

Init ==
    /\ EmptyDatabase
    /\ applied = NotApplied

\* RegisterCompanyUseCase.execute with data that passes the Company entity:
\* objects.create inserts the row, or the primary key rejects a second one.
RegisterCompany(nit) ==
    /\ nit \notin companies
    /\ companies' = companies \cup {nit}
    /\ UNCHANGED <<applied, products, inventory, pc, req, updated_item, result, trace,
                   saves, calls, ledger>>

\* RegisterProductUseCase.execute with data that passes the Product entity:
\* the service requires the company, objects.create requires a fresh code.
RegisterProduct(code, company_nit) ==
    /\ company_exists(company_nit)
    /\ ~ \E r \in products : r.code = code
    /\ products' = products \cup {[code |-> code, company |-> company_nit]}
    /\ UNCHANGED <<applied, companies, inventory, pc, req, updated_item, result, trace,
                   saves, calls, ledger>>

CompanyExists == "company_repository.exists"
ProductExists == "product_repository.exists"
InventoryFind == "inventory_repository.find"
InventorySave == "inventory_repository.save"

Request(op, company_nit, product_code, quantity) ==
    [op |-> op, company_nit |-> company_nit, product_code |-> product_code,
     quantity |-> quantity]

\* The call of worker p ends: it returns or raises r.
Finish(p, r) ==
    /\ pc' = [pc EXCEPT ![p] = "idle"]
    /\ result' = [result EXCEPT ![p] = r]
    /\ req' = [req EXCEPT ![p] = NoReq]
    /\ updated_item' = [updated_item EXCEPT ![p] = None]

Called(p, port) == trace' = [trace EXCEPT ![p] = Append(@, port)]

\* Enter without the policy "company must exist".
Enter_without_company_check(p, op, company_nit, product_code, quantity, next) ==
    /\ pc[p] = "idle"
    /\ calls < MaxCalls
    /\ calls' = calls + 1
    /\ trace' = [trace EXCEPT ![p] = <<CompanyExists>>]
    /\ saves' = [saves EXCEPT ![p] = <<>>]
    /\ pc' = [pc EXCEPT ![p] = next]
    /\ req' = [req EXCEPT ![p] = Request(op, company_nit, product_code, quantity)]
    /\ result' = [result EXCEPT ![p] = Pending]
    /\ UNCHANGED <<applied, companies, products, inventory, updated_item, ledger>>

\* A worker runs a service method up to its first statement, the policy
\* "company must exist", which both methods open with.
Enter(p, op, company_nit, product_code, quantity, next) ==
    /\ pc[p] = "idle"
    /\ calls < MaxCalls
    /\ calls' = calls + 1
    /\ trace' = [trace EXCEPT ![p] = <<CompanyExists>>]
    /\ saves' = [saves EXCEPT ![p] = <<>>]
    /\ IF ~ company_exists(company_nit)
       THEN Finish(p, Outcome(op, Raise(InvalidCompanyError,
                <<"Cannot manage inventory: Company with NIT '", company_nit,
                  "' does not exist">>)))
       ELSE /\ pc' = [pc EXCEPT ![p] = next]
            /\ req' = [req EXCEPT ![p] =
                         Request(op, company_nit, product_code, quantity)]
            /\ result' = [result EXCEPT ![p] = Pending]
            /\ UNCHANGED updated_item
    /\ UNCHANGED <<applied, companies, products, inventory, ledger>>

\* add_to_inventory, from the call to the company check
add_to_inventory(p, company_nit, product_code, quantity) ==
    Enter(p, "add", company_nit, product_code, quantity, "add_product")

\* add_to_inventory, the policy "product must exist for this company"
add_check_product(p) ==
    /\ pc[p] = "add_product"
    /\ Called(p, ProductExists)
    /\ IF ~ product_exists(req[p].product_code, req[p].company_nit)
       THEN Finish(p, Outcome("add", Raise(InvalidProductError,
                <<"Cannot manage inventory: Product '", req[p].product_code,
                  "' does not exist for company '", req[p].company_nit, "'">>)))
       ELSE /\ pc' = [pc EXCEPT ![p] = "add_find"]
            /\ UNCHANGED <<result, req, updated_item>>
    /\ UNCHANGED <<applied, companies, products, inventory, saves,
                   calls, ledger>>

\* What add_to_inventory computes from what find returned.
add_transition(existing, company_nit, product_code, quantity) ==
    IF existing.kind # "ok" THEN existing
    ELSE IF existing.item # None
    THEN increase(existing.item[1], quantity)
    ELSE InventoryItem(company_nit, product_code, quantity)

\* add_to_inventory, from find to the updated item
add_find(p) ==
    /\ pc[p] = "add_find"
    /\ Called(p, InventoryFind)
    /\ LET existing == find(req[p].company_nit, req[p].product_code)
           made == add_transition(existing, req[p].company_nit,
                                  req[p].product_code, req[p].quantity)
       IN  IF made.kind # "ok"
           THEN Finish(p, Outcome("add", made))
           ELSE /\ pc' = [pc EXCEPT ![p] = "add_save"]
                /\ updated_item' = [updated_item EXCEPT ![p] = made.item]
                /\ UNCHANGED <<result, req>>
    /\ UNCHANGED <<applied, companies, products, inventory, saves, calls, ledger>>

\* SaveAndReturn that calls save two times.
SaveTwiceAndReturn(p, sign) ==
    LET item == updated_item[p][1]
        done == save(item)
        k == <<req[p].company_nit, req[p].product_code>>
    IN  /\ trace' = [trace EXCEPT ![p] = @ \o <<InventorySave, InventorySave>>]
        /\ saves' = [saves EXCEPT ![p] = @ \o <<item, item>>]
        /\ inventory' = done.rows
        /\ Finish(p, Outcome(req[p].op, Return(item)))
        /\ ledger' = [ledger EXCEPT ![k] = @ + sign * req[p].quantity]
        /\ UNCHANGED <<applied, companies, products, calls>>

\* The last two statements of both service methods: save, then return.
SaveAndReturn(p, sign) ==
    LET item == updated_item[p][1]
        done == save(item)
        k == <<req[p].company_nit, req[p].product_code>>
    IN  /\ Called(p, InventorySave)
        /\ saves' = [saves EXCEPT ![p] = Append(@, item)]
        /\ inventory' = done.rows
        /\ IF done.raised # None
           THEN Finish(p, Outcome(req[p].op, done.raised[1])) /\ UNCHANGED ledger
           ELSE /\ Finish(p, Outcome(req[p].op, Return(item)))
                /\ ledger' = [ledger EXCEPT ![k] = @ + sign * req[p].quantity]
        /\ UNCHANGED <<applied, companies, products, calls>>

\* add_to_inventory, save and return
add_save(p) ==
    /\ pc[p] = "add_save"
    /\ SaveAndReturn(p, 1)

\* remove_from_inventory, from the call to the company check
remove_from_inventory(p, company_nit, product_code, quantity) ==
    Enter(p, "remove", company_nit, product_code, quantity, "remove_find")

\* remove_transition that takes a pair with no record for a record of 0.
remove_transition_absent_is_zero(existing, company_nit, product_code, quantity) ==
    IF existing.kind # "ok" THEN existing
    ELSE IF existing.item = None
    THEN decrease([company_nit |-> company_nit, product_code |-> product_code,
                   quantity |-> 0], quantity)
    ELSE decrease(existing.item[1], quantity)

\* remove_transition that takes a record of quantity 0 for no record.
remove_transition_zero_is_absent(existing, company_nit, product_code, quantity) ==
    IF existing.kind # "ok" THEN existing
    ELSE IF existing.item = None \/ existing.item[1].quantity = 0
    THEN Raise(InvalidProductError,
               <<"Product '", product_code, "' is not in inventory for company '",
                 company_nit, "'">>)
    ELSE decrease(existing.item[1], quantity)

\* What remove_from_inventory computes from what find returned.
remove_transition(existing, company_nit, product_code, quantity) ==
    IF existing.kind # "ok" THEN existing
    ELSE IF existing.item = None
    THEN Raise(InvalidProductError,
               <<"Product '", product_code, "' is not in inventory for company '",
                 company_nit, "'">>)
    ELSE decrease(existing.item[1], quantity)

\* remove_find that sets the record to 0 before it raises on a failed decrease.
remove_find_writes_then_raises(p) ==
    /\ pc[p] = "remove_find"
    /\ Called(p, InventoryFind)
    /\ LET existing == find(req[p].company_nit, req[p].product_code)
           made == remove_transition(existing, req[p].company_nit,
                                     req[p].product_code, req[p].quantity)
       IN  IF made.kind # "ok"
           THEN /\ Finish(p, Outcome("remove", made))
                /\ inventory' = IF existing.item = None THEN inventory
                                ELSE update_or_create(inventory, req[p].company_nit,
                                                      req[p].product_code, 0)
           ELSE /\ pc' = [pc EXCEPT ![p] = "remove_save"]
                /\ updated_item' = [updated_item EXCEPT ![p] = made.item]
                /\ UNCHANGED <<result, req, inventory>>
    /\ UNCHANGED <<applied, companies, products, saves, calls, ledger>>

\* remove_from_inventory, from find to the updated item
remove_find(p) ==
    /\ pc[p] = "remove_find"
    /\ Called(p, InventoryFind)
    /\ LET existing == find(req[p].company_nit, req[p].product_code)
           made == remove_transition(existing, req[p].company_nit,
                                     req[p].product_code, req[p].quantity)
       IN  IF made.kind # "ok"
           THEN Finish(p, Outcome("remove", made))
           ELSE /\ pc' = [pc EXCEPT ![p] = "remove_save"]
                /\ updated_item' = [updated_item EXCEPT ![p] = made.item]
                /\ UNCHANGED <<result, req>>
    /\ UNCHANGED <<applied, companies, products, inventory, saves, calls, ledger>>

\* remove_from_inventory, save and return
remove_save(p) ==
    /\ pc[p] = "remove_save"
    /\ SaveAndReturn(p, -1)

\* check_inventory, the call: it opens with no existence policy.
check_inventory(p, company_nit, product_code) ==
    /\ pc[p] = "idle"
    /\ calls < MaxCalls
    /\ calls' = calls + 1
    /\ trace' = [trace EXCEPT ![p] = <<>>]
    /\ saves' = [saves EXCEPT ![p] = <<>>]
    /\ pc' = [pc EXCEPT ![p] = "check_find"]
    /\ req' = [req EXCEPT ![p] = Request("check", company_nit, product_code, 0)]
    /\ result' = [result EXCEPT ![p] = Pending]
    /\ UNCHANGED <<applied, companies, products, inventory, updated_item, ledger>>

\* check_transition that takes an item of quantity 0 for no item.
check_transition_zero_is_absent(item) ==
    IF item.kind # "ok" THEN item
    ELSE IF item.item # None /\ item.item[1].quantity # 0
    THEN Return(Some(item.item[1].quantity))
    ELSE Return(None)

\* What check_inventory returns from what find returned: an int | None.  An
\* InventoryItem defines neither __bool__ nor __len__, so any item is truthy.
check_transition(item) ==
    IF item.kind # "ok" THEN item
    ELSE IF item.item # None
    THEN Return(Some(item.item[1].quantity))
    ELSE Return(None)

\* check_inventory, find and return
check_find(p) ==
    /\ pc[p] = "check_find"
    /\ Called(p, InventoryFind)
    /\ Finish(p, Outcome("check",
                 check_transition(find(req[p].company_nit, req[p].product_code))))
    /\ UNCHANGED <<applied, companies, products, inventory, saves, calls, ledger>>

Step(p) ==
    \/ \E nit \in Nits, code \in Codes, q \in Quantities :
          add_to_inventory(p, nit, code, q)
    \/ add_check_product(p)
    \/ add_find(p)
    \/ add_save(p)
    \/ \E nit \in Nits, code \in Codes, q \in Quantities :
          remove_from_inventory(p, nit, code, q)
    \/ remove_find(p)
    \/ remove_save(p)
    \/ \E nit \in Nits, code \in Codes : check_inventory(p, nit, code)
    \/ check_find(p)

Next ==
    \/ \E nit \in Nits : RegisterCompany(nit)
    \/ \E code \in Codes, nit \in Nits : RegisterProduct(code, nit)
    \/ \E p \in Procs : Step(p)

Spec == Init /\ [][Next]_vars

\* One call at a time: a worker takes a step only while every other is idle.
NextSeq ==
    \/ \E nit \in Nits : RegisterCompany(nit)
    \/ \E code \in Codes, nit \in Nits : RegisterProduct(code, nit)
    \/ \E p \in Procs : (\A o \in Procs \ {p} : pc[o] = "idle") /\ Step(p)

SpecSeq == Init /\ [][NextSeq]_vars

\* ------------------------------------------------------------ the values
\* Arguments the functions of the product side are applied to.
SeqsUpTo(S, n) == UNION {[1 .. k -> S] : k \in 0 .. n}

\* dicts of at most n entries: sequences of entries with pairwise distinct keys
Dicts(keys, values, n) ==
    {d \in SeqsUpTo(keys \X values, n) :
        \A i, j \in 1 .. Len(d) : i # j => d[i][1] # d[j][1]}

PROD001 == <<"P", "R", "O", "D", "0", "0", "1">>
PROD003 == <<"P", "R", "O", "D", "0", "0", "3">>
NIT900100100 == <<"9", "0", "0", "1", "0", "0", "1", "0", "0">>
NIT900200200 == <<"9", "0", "0", "2", "0", "0", "2", "0", "0">>

CurrencyCodes ==
    {None} \cup {Some(s) : s \in SeqsUpTo({" ", "u", "S", "d"}, MaxCodeLen)}
           \cup {Some(<<"e", "u", "r">>), Some(<<"C", "o", "p", " ">>),
                 Some(<<"G", "B", "P">>)}

CodeArgs == {None, Some(<<" ">>), Some(PROD001),
             Some(<<" ">> \o PROD003 \o <<" ">>)}
NameArgs == {None, Some(<<>>), Some(<<" ", "T", "e", "a", " ">>)}
FeatureItems == {None, Some(<<" ">>), Some(<<"r", "e", "d", " ">>)}
FeatureArgs == {None} \cup {Some(f) : f \in SeqsUpTo(FeatureItems, MaxFeatures)}
PriceKeys == {USD, <<"u", "s", "d">>, <<" ", "e", "u", "r">>}
\* a Money of 100.00 USD, and the float 100.0
Money100 == [type |-> "Money", amount |-> 10000, currency |-> USD]
Float100 == [type |-> "float", amount |-> 10000, currency |-> <<>>]
PriceArgs ==
    {None} \cup {Some(d) : d \in Dicts(PriceKeys, {Money100, Float100}, MaxPrices)}
NitArgs == {None, Some(<<" ">>), Some(NIT900100100)}

\* Currency.from_code(code), evaluated
CallFromCode ==
    /\ applied.fn = "from_code" /\ ~ applied.done
    /\ applied' = [applied EXCEPT !.done = TRUE,
                                  !.out = from_code(applied.args[1])]
    /\ UNCHANGED <<companies, products, inventory, pc, req, updated_item,
                   result, trace, saves, calls, ledger>>

\* Product(code, name, features, prices, company_nit), evaluated
CallProduct ==
    /\ applied.fn = "Product" /\ ~ applied.done
    /\ applied' = [applied EXCEPT !.done = TRUE,
                      !.out = Product(applied.args[1], applied.args[2],
                                      applied.args[3], applied.args[4],
                                      applied.args[5])]
    /\ UNCHANGED <<companies, products, inventory, pc, req, updated_item,
                   result, trace, saves, calls, ledger>>

\* Money(amount, currency), evaluated
CallMoney ==
    /\ applied.fn = "Money" /\ ~ applied.done
    /\ applied' = [applied EXCEPT !.done = TRUE,
                      !.out = Money(applied.args[1], applied.args[2])]
    /\ UNCHANGED <<companies, products, inventory, pc, req, updated_item,
                   result, trace, saves, calls, ledger>>

\* a.add(b), b.add(a), a.add(b).add(c) and a.add(b.add(c)), evaluated; a
\* failed inner call is the failure of the expression.
CallAdd ==
    /\ applied.fn = "add" /\ ~ applied.done
    /\ LET a == applied.args[1]
           b == applied.args[2]
           c == applied.args[3]
           ab == add(a, b)
           bc == add(b, c)
       IN  applied' = [applied EXCEPT !.done = TRUE,
              !.out = [ab |-> ab, ba |-> add(b, a),
                       ab_c |-> IF ab.kind = "ok" THEN add(ab.item[1], c) ELSE ab,
                       a_bc |-> IF bc.kind = "ok" THEN add(a, bc.item[1]) ELSE bc]]
    /\ UNCHANGED <<companies, products, inventory, pc, req, updated_item,
                   result, trace, saves, calls, ledger>>

\* item.increase(delta), item.decrease(delta) and
\* item.increase(delta).decrease(delta), evaluated
CallIncrease ==
    /\ applied.fn = "increase" /\ ~ applied.done
    /\ LET item == applied.args[1]
           delta == applied.args[2]
           up == increase(item, delta)
       IN  applied' = [applied EXCEPT !.done = TRUE,
              !.out = [increase |-> up, decrease |-> decrease(item, delta),
                       back |-> IF up.kind = "ok"
                                THEN decrease(up.item[1], delta) ELSE up]]
    /\ UNCHANGED <<companies, products, inventory, pc, req, updated_item,
                   result, trace, saves, calls, ledger>>

\* Company(nit, name, address, phone), evaluated
CallCompany ==
    /\ applied.fn = "Company" /\ ~ applied.done
    /\ applied' = [applied EXCEPT !.done = TRUE,
                      !.out = Company(applied.args[1], applied.args[2],
                                      applied.args[3], applied.args[4])]
    /\ UNCHANGED <<companies, products, inventory, pc, req, updated_item,
                   result, trace, saves, calls, ledger>>

\* The entities on their own: one call of a constructor or class method, on
\* any of the arguments above.
InitEntities ==
    /\ EmptyDatabase
    /\ \/ \E code \in CurrencyCodes : applied = Call("from_code", <<code>>)
       \/ \E code \in CodeArgs, name \in NameArgs, features \in FeatureArgs,
             prices \in PriceArgs, company_nit \in NitArgs :
             applied = Call("Product",
                            <<code, name, features, prices, company_nit>>)
       \* amounts in thousandths: around zero, and around the precision
       \/ \E amount \in {None} \cup {Some(n) : n \in -15 .. 15}
                        \cup {Some(10 * Limit + n) : n \in -6 .. 0}
                        \cup {Some(- 10 * Limit + n) : n \in 0 .. 6},
             currency \in Currency :
             applied = Call("Money", <<amount, currency>>)
       \* Money values: amounts in hundredths, small and up to the precision
       \/ \E a, b, c \in
                [type : {"Money"},
                 amount : {1, 2, Limit \div 2, Limit - 2, Limit - 1},
                 currency : {USD, EUR}] :
             applied = Call("add", <<a, b, c>>)
       \* nits of 4, 5 and 9 characters; phones of '+', ' ', a digit, a letter
       \/ \E nit \in {None, Some(<<" ">>), Some(<<"1", "2", "3", "4", " ">>),
                       Some(<<" ", "1", "2", "3", "4", "5", " ">>),
                       Some(NIT900100100)},
             name \in NameArgs, address \in NameArgs,
             phone \in {None} \cup
                       {Some(t) : t \in SeqsUpTo({"+", " ", "3", "a"}, MaxCodeLen - 2)} :
             applied = Call("Company", <<nit, name, address, phone>>)
       \/ \E k \in Pairs, quantity \in 0 .. MaxQty + 1,
             delta \in -1 .. MaxQty + 2 :
             applied = Call("increase",
                            <<[company_nit |-> k[1], product_code |-> k[2],
                               quantity |-> quantity], delta>>)

NextEntities ==
    CallFromCode \/ CallProduct \/ CallMoney \/ CallAdd \/ CallIncrease
    \/ CallCompany

SpecEntities == InitEntities /\ [][NextEntities]_vars

\* ------------------------------------------------------------ registration
\* What a call of the service or the use case came to: a result, the
\* constructors and ports it invoked in order, and the error it was raised
\* from (raise ... from exc), None when there is none.
Traced(r, events, cause) ==
    [kind |-> r.kind, msg |-> r.msg, item |-> r.item, events |-> events,
     cause |-> cause]

FromCode == "Currency.from_code"
NewMoney == "Money"
NewProduct == "Product"
CompanyGet == "Company.objects.get"
ProductCreate == "Product.objects.create"

\* DjangoCompanyRepository.exists on an argument that may be None
nit_exists(company_nit) ==
    company_nit # None /\ company_exists(Chars(company_nit[1]))

\* register that builds the Product ahead of the company check.
register_constructs_first(code, name, features, prices, company_nit) ==
    LET product == Product(code, name,
                           IF features = None THEN Some(<<>>) ELSE features,
                           prices, company_nit)
    IN  IF product.kind \in {InvalidProductError, InvalidCompanyError}
        THEN Traced(Raise(InvalidProductError,
                          <<"Failed to register product: ">> \o product.msg),
                    <<NewProduct>>, Some(product))
        ELSE IF product.kind # "ok"
        THEN Traced(product, <<NewProduct>>, None)
        ELSE IF ~ nit_exists(company_nit)
        THEN Traced(Raise(InvalidCompanyError,
                 <<"Cannot register product: Company with NIT '",
                   Format(company_nit), "' does not exist">>),
                 <<NewProduct, CompanyExists>>, None)
        ELSE Traced(product, <<NewProduct, CompanyExists>>, None)

\* register that re-raises what the constructor raised, as it is.
register_without_prefix(code, name, features, prices, company_nit) ==
    LET product == Product(code, name,
                           IF features = None THEN Some(<<>>) ELSE features,
                           prices, company_nit)
    IN  IF ~ nit_exists(company_nit)
        THEN Traced(Raise(InvalidCompanyError,
                 <<"Cannot register product: Company with NIT '",
                   Format(company_nit), "' does not exist">>),
                 <<CompanyExists>>, None)
        ELSE Traced(product, <<CompanyExists, NewProduct>>, None)

\* register whose except clause takes InvalidPriceError too.
register_wraps_price_errors(code, name, features, prices, company_nit) ==
    LET product == Product(code, name,
                           IF features = None THEN Some(<<>>) ELSE features,
                           prices, company_nit)
    IN  IF ~ nit_exists(company_nit)
        THEN Traced(Raise(InvalidCompanyError,
                 <<"Cannot register product: Company with NIT '",
                   Format(company_nit), "' does not exist">>),
                 <<CompanyExists>>, None)
        ELSE IF product.kind \in {InvalidProductError, InvalidCompanyError,
                                  InvalidPriceError}
        THEN Traced(Raise(InvalidProductError,
                          <<"Failed to register product: ">> \o product.msg),
                    <<CompanyExists, NewProduct>>, Some(product))
        ELSE Traced(product, <<CompanyExists, NewProduct>>, None)

\* ProductRegistrationService.register: features is None or Some(list); an
\* empty list and None both become the empty tuple.
register(code, name, features, prices, company_nit) ==
    LET product == Product(code, name,
                           IF features = None THEN Some(<<>>) ELSE features,
                           prices, company_nit)
    IN  IF ~ nit_exists(company_nit)
        THEN Traced(Raise(InvalidCompanyError,
                 <<"Cannot register product: Company with NIT '",
                   Format(company_nit), "' does not exist">>),
                 <<CompanyExists>>, None)
        ELSE IF product.kind \in {InvalidProductError, InvalidCompanyError}
        THEN Traced(Raise(InvalidProductError,
                          <<"Failed to register product: ">> \o product.msg),
                    <<CompanyExists, NewProduct>>, Some(product))
        ELSE Traced(product, <<CompanyExists, NewProduct>>, None)

\* The first loop of RegisterProductUseCase.execute: prices.items() turned
\* into Money objects under the keys as given.
RECURSIVE domain_prices(_, _, _)
domain_prices(items, built, events) ==
    IF items = <<>> THEN Traced(Return(built), events, None)
    ELSE LET currency_code == Head(items)[1]
             amount == Head(items)[2]
             currency == from_code(Some(currency_code))
             money == Money(amount, currency.item[1])
         IN  IF currency.kind # "ok"
             THEN Traced(currency, Append(events, FromCode), None)
             ELSE IF money.kind # "ok"
             THEN Traced(money, events \o <<FromCode, NewMoney>>, None)
             ELSE domain_prices(Tail(items),
                                Append(built, <<currency_code, money.item[1]>>),
                                events \o <<FromCode, NewMoney>>)

\* RegisterProductUseCase.execute: what it returns or raises, and the rows of
\* table products afterwards.  objects.create inserts, and the primary key
\* rejects a code that has a row.
execute(code, name, features, prices, company_nit) ==
    LET converted == domain_prices(prices, <<>>, <<>>)
        domain_product == register(code, name, features,
                                   Some(converted.item[1]), company_nit)
        called == converted.events \o domain_product.events
        row == [code |-> Chars(domain_product.item[1].code),
                company |-> Format(company_nit)]
    IN  IF converted.kind # "ok"
        THEN [out |-> converted, rows |-> products]
        ELSE IF domain_product.kind # "ok"
        THEN [out |-> Traced(domain_product, called, domain_product.cause),
              rows |-> products]
        ELSE IF ~ nit_exists(company_nit)
        THEN [out |-> Traced(Raise(InvalidCompanyError,
                        <<"Company with NIT '", Format(company_nit),
                          "' not found during persistence">>),
                        Append(called, CompanyGet), None),
              rows |-> products]
        ELSE IF \E r \in products : r.code = row.code
        THEN [out |-> Traced(Raise(IntegrityError,
                        <<"UNIQUE constraint failed: products.code">>),
                        called \o <<CompanyGet, ProductCreate>>, None),
              rows |-> products]
        ELSE [out |-> Traced(Return(row),
                             called \o <<CompanyGet, ProductCreate>>, None),
              rows |-> products \cup {row}]

\* ProductRegistrationService.register, called on its own
CallRegister ==
    /\ applied.fn = "register" /\ ~ applied.done
    /\ applied' = [applied EXCEPT !.done = TRUE,
                      !.out = register(applied.args[1], applied.args[2],
                                       applied.args[3], applied.args[4],
                                       applied.args[5])]
    /\ UNCHANGED <<companies, products, inventory, pc, req, updated_item,
                   result, trace, saves, calls, ledger>>

\* RegisterProductUseCase.execute on any data
RegisterProductUseCase ==
    /\ applied.fn = "RegisterProduct" /\ ~ applied.done
    /\ LET done == execute(applied.args[1], applied.args[2], applied.args[3],
                           applied.args[4], applied.args[5])
       IN  /\ applied' = [applied EXCEPT !.done = TRUE, !.out = done.out]
           /\ products' = done.rows
    /\ UNCHANGED <<companies, inventory, pc, req, updated_item, result, trace,
                   saves, calls, ledger>>

\* The arguments of the service and of the use case: texts, features and
\* prices as above, the lists one entry shorter; amounts of the use case are
\* 100.000, -10.000 and a text that is no number.
ServiceCodes == CodeArgs \ {None}
ServiceNames == NameArgs \ {None}
ServiceFeatures ==
    {f \in FeatureArgs : f = None \/ Len(f[1]) < MaxFeatures}
ServicePrices ==
    {d \in PriceArgs : d = None \/ Len(d[1]) < MaxPrices}
ServiceNits == {Some(<<" ">>), Some(NIT900100100), Some(NIT900200200)}
RawKeys == {USD, <<"u", "s", "d">>, <<"G", "B", "P">>}
RawAmounts == {Some(100000), Some(-10000), None}
RawPrices == Dicts(RawKeys, RawAmounts, MaxPrices - 1)

\* Product registration: one call of the service or of the use case, on any
\* of the arguments above, with companies and products registered around it.
InitRegistration ==
    /\ EmptyDatabase
    /\ \/ \E code \in ServiceCodes, name \in ServiceNames,
             features \in ServiceFeatures, prices \in ServicePrices,
             company_nit \in ServiceNits :
             applied = Call("register",
                            <<code, name, features, prices, company_nit>>)
       \/ \E code \in ServiceCodes, name \in ServiceNames,
             features \in ServiceFeatures, prices \in RawPrices,
             company_nit \in ServiceNits :
             applied = Call("RegisterProduct",
                            <<code, name, features, prices, company_nit>>)

NextRegistration ==
    \/ \E nit \in Nits : RegisterCompany(nit)
    \/ \E code \in Codes, nit \in Nits : RegisterProduct(code, nit)
    \/ CallRegister
    \/ RegisterProductUseCase

SpecRegistration == InitRegistration /\ [][NextRegistration]_vars

\* ------------------------------------------------------------ companies
\* The use cases of company management. In this specification a row of table
\* companies carries its four columns, as texts; nit is the primary key.
DoesNotExist == "DoesNotExist"

\* RegisterCompanyUseCase.execute: what it returns or raises, and the rows of
\* table companies afterwards.  objects.create inserts, and the primary key
\* rejects a nit that has a row.
RegisterCompany_execute(nit, name, address, phone) ==
    LET domain_company == Company(nit, name, address, phone)
    IN  IF domain_company.kind # "ok"
        THEN [out |-> domain_company, rows |-> companies]
        ELSE IF \E r \in companies : r.nit = domain_company.item[1].nit
        THEN [out |-> Raise(IntegrityError,
                            <<"UNIQUE constraint failed: companies.nit">>),
              rows |-> companies]
        ELSE [out |-> domain_company,
              rows |-> companies \cup {domain_company.item[1]}]

\* execute that takes an empty text for an absent one (name or ...).
UpdateCompany_execute_falsy_is_absent(nit, name, address, phone) ==
    IF ~ \E r \in companies : Some(r.nit) = nit
    THEN [out |-> Raise(DoesNotExist,
                        <<"Company matching query does not exist.">>),
          rows |-> companies]
    ELSE LET django_company == CHOOSE r \in companies : Some(r.nit) = nit
             Given(value) == value # None /\ value # Some(<<>>)
             domain_company ==
                 Company(nit,
                         IF Given(name) THEN name ELSE Some(django_company.name),
                         IF Given(address) THEN address
                                           ELSE Some(django_company.address),
                         IF Given(phone) THEN phone ELSE Some(django_company.phone))
         IN  IF domain_company.kind # "ok"
             THEN [out |-> domain_company, rows |-> companies]
             ELSE LET saved == [nit |-> django_company.nit,
                                name |-> domain_company.item[1].name,
                                address |-> domain_company.item[1].address,
                                phone |-> domain_company.item[1].phone]
                  IN  [out |-> Return(saved),
                       rows |-> (companies \ {django_company}) \cup {saved}]

\* UpdateCompanyUseCase.execute: what it returns or raises, and the rows of
\* table companies afterwards.  An argument is None or Some(text).
UpdateCompany_execute(nit, name, address, phone) ==
    IF ~ \E r \in companies : Some(r.nit) = nit
    THEN [out |-> Raise(DoesNotExist,
                        <<"Company matching query does not exist.">>),
          rows |-> companies]
    ELSE LET django_company == CHOOSE r \in companies : Some(r.nit) = nit
             updated_name ==
                 IF name # None THEN name ELSE Some(django_company.name)
             updated_address ==
                 IF address # None THEN address ELSE Some(django_company.address)
             updated_phone ==
                 IF phone # None THEN phone ELSE Some(django_company.phone)
             domain_company ==
                 Company(nit, updated_name, updated_address, updated_phone)
         IN  IF domain_company.kind # "ok"
             THEN [out |-> domain_company, rows |-> companies]
             ELSE LET saved == [nit |-> django_company.nit,
                                name |-> domain_company.item[1].name,
                                address |-> domain_company.item[1].address,
                                phone |-> domain_company.item[1].phone]
                  IN  [out |-> Return(saved),
                       rows |-> (companies \ {django_company}) \cup {saved}]

\* RegisterCompanyUseCase.execute on any data
RegisterCompanyUseCase(nit, name, address, phone) ==
    /\ LET done == RegisterCompany_execute(nit, name, address, phone)
       IN  /\ applied' = [fn |-> "RegisterCompany",
                          args |-> <<nit, name, address, phone>>,
                          done |-> TRUE, out |-> done.out]
           /\ companies' = done.rows
    /\ UNCHANGED <<products, inventory, pc, req, updated_item, result, trace,
                   saves, calls, ledger>>

\* UpdateCompanyUseCase.execute on any data
UpdateCompanyUseCase(nit, name, address, phone) ==
    /\ LET done == UpdateCompany_execute(nit, name, address, phone)
       IN  /\ applied' = [fn |-> "UpdateCompany",
                          args |-> <<nit, name, address, phone>>,
                          done |-> TRUE, out |-> done.out]
           /\ companies' = done.rows
    /\ UNCHANGED <<products, inventory, pc, req, updated_item, result, trace,
                   saves, calls, ledger>>

\* Company management: companies are registered and updated, one call after
\* another, with valid and invalid data.
InitCompanies == EmptyDatabase /\ applied = NotApplied

NextCompanies ==
    \/ \E nit \in {Some(<<"1", "2", "3", "4", "5">>),
                    Some(<<" ">> \o NIT900100100 \o <<" ">>),
                    Some(<<"1", "2", "3", "4">>)},
          name \in {Some(<<" ", "T", "e", "a", " ">>), Some(<<>>)},
          address \in {Some(<<"M", "a", "i", "n">>), None},
          phone \in {Some(<<"+", "3">>), Some(<<"3", "0">>), Some(<<"a">>)} :
          RegisterCompanyUseCase(nit, name, address, phone)
    \/ \E nit \in {Some(<<"1", "2", "3", "4", "5">>), Some(NIT900100100),
                    Some(<<" ", "1", "2", "3", "4", "5">>)},
          name \in {None, Some(<<" ", "B", "o", "l", "t", " ">>), Some(<<>>),
                    Some(<<" ">>)},
          address \in {None, Some(<<" ", "S", "i", "d", "e">>), Some(<<>>)},
          phone \in {None, Some(<<"3", " ", "3", " ">>), Some(<<"a", "3">>),
                     Some(<<>>)} :
          UpdateCompanyUseCase(nit, name, address, phone)

SpecCompanies == InitCompanies /\ [][NextCompanies]_vars

\* ------------------------------------------------------------ properties
\* The quantities persisted for a pair in a state of table inventory.
StockIn(rows, k) == {r.quantity : r \in {x \in rows : <<x.company, x.product>> = k}}
Stock(k) == StockIn(inventory, k)
Succeeded(p, op) == result[p].op = op /\ result[p].kind = "ok"
PairOf(item) == <<item.company_nit, item.product_code>>

\* C1: in every reachable state, under any interleaving of add_to_inventory and
\* remove_from_inventory calls, every persisted inventory record has a
\* quantity greater than or equal to 0.
C1_QuantityNeverNegative == \A r \in inventory : r.quantity >= 0

\* Two removes of one pair raced and both succeeded: more was removed than was
\* added, and the record stands at 0.
C1_Witness ==
    \E k \in Pairs :
        /\ Stock(k) = {0}
        /\ ledger[k] < 0
        /\ \A p \in Procs : Succeeded(p, "remove") /\ PairOf(result[p].item[1]) = k

\* C2: the save of add_to_inventory is a blind overwrite: when a worker's save
\* returns, the pair's persisted quantity is the one that worker computed from
\* its own earlier find, whatever was saved in between, and the call succeeds;
\* so two concurrent adds that read the same record both succeed and the
\* persisted quantity holds one of the two increments only.
C2_SaveOverwritesWithOwnRead ==
    [][\A p \in Procs :
          (pc[p] = "add_save" /\ pc'[p] = "idle") =>
              /\ result'[p] = Outcome("add", Return(updated_item[p][1]))
              /\ StockIn(inventory', PairOf(updated_item[p][1]))
                     = {updated_item[p][1].quantity}]_vars

\* Both workers added 1 to a record that held 1; both returned 2, the record
\* holds 2, and the quantities successfully added come to 3.
C2_Witness ==
    \E k \in Pairs :
        /\ \A p \in Procs :
              /\ Succeeded(p, "add")
              /\ PairOf(result[p].item[1]) = k
              /\ result[p].item[1].quantity = 2
        /\ Stock(k) = {2}
        /\ ledger[k] = 3

\* C3: for a fresh pair, after any sequential series of successful
\* add_to_inventory and remove_from_inventory calls the persisted quantity is
\* the sum of the added quantities minus the sum of the removed ones; a pair
\* never added to has no record.
C3_SequentialQuantityIsSum ==
    \A k \in Pairs :
        /\ Stock(k) \subseteq {ledger[k]}
        /\ (Stock(k) = {} => ledger[k] = 0)

\* An add of 1, a second add of 1 and a remove of 1 leave 1: the latest two
\* calls are the second add, which returned 2, and the remove, which returned 1.
C3_Witness ==
    \E k \in Pairs, p, o \in Procs :
        /\ Succeeded(p, "add") /\ result[p].item[1].quantity = 2
        /\ Succeeded(o, "remove") /\ result[o].item[1].quantity = 1
        /\ PairOf(result[p].item[1]) = k /\ PairOf(result[o].item[1]) = k
        /\ Stock(k) = {1} /\ ledger[k] = 1

ReqPair(p) == <<req[p].company_nit, req[p].product_code>>
ItemOf(k, quantity) ==
    [company_nit |-> k[1], product_code |-> k[2], quantity |-> quantity]
InTrace(p, port) == \E i \in 1 .. Len(trace[p]) : trace[p][i] = port

\* C4: remove_from_inventory asked to remove more than the current stock of an
\* existing pair fails with InvalidInventoryError and leaves the persisted
\* quantity of that pair and of every other pair unchanged.
C4_RemoveMoreThanStockFails ==
    [][\A p \in Procs :
          (/\ pc[p] = "remove_find" /\ pc'[p] # "remove_find"
           /\ \E n \in Stock(ReqPair(p)) : req[p].quantity > n)
          => /\ result'[p].op = "remove"
             /\ result'[p].kind = InvalidInventoryError
             /\ pc'[p] = "idle"
             /\ inventory' = inventory]_vars

\* A remove reported insufficient stock while one pair holds 0 and another 1.
C4_Witness ==
    \E p \in Procs, k, j \in Pairs :
        /\ result[p] = Outcome("remove",
                               Raise(InvalidInventoryError, <<"Insufficient stock">>))
        /\ k # j /\ Stock(k) = {0} /\ Stock(j) = {1}

\* C5: a failing add_to_inventory or remove_from_inventory never called
\* inventory_repository.save, and table inventory changes only in a step that
\* is the save of a call that returns successfully; so no failing call changes
\* the persisted inventory.
C5_NoSaveNoWriteOnFailure ==
    [][/\ \A p \in Procs :
             Failed(result'[p]) =>
                 /\ saves'[p] = <<>>
                 /\ \A i \in 1 .. Len(trace'[p]) : trace'[p][i] # InventorySave
       /\ inventory' # inventory =>
             \E p \in Procs :
                 /\ pc[p] \in {"add_save", "remove_save"}
                 /\ saves'[p] = Append(saves[p], updated_item[p][1])
                 /\ result'[p].kind = "ok"]_vars

\* One worker's remove failed for insufficient stock, the other's add failed
\* on a non-positive increment, and the record they aimed at still holds 0.
C5_Witness ==
    \E p, o \in Procs, k \in Pairs :
        /\ result[p] = Outcome("remove",
                               Raise(InvalidInventoryError, <<"Insufficient stock">>))
        /\ result[o] = Outcome("add",
                               Raise(InvalidInventoryError, <<"Increment must be positive">>))
        /\ inventory = {[company |-> k[1], product |-> k[2], quantity |-> 0]}
        /\ saves[p] = <<>> /\ saves[o] = <<>>

\* C6: every successful add_to_inventory or remove_from_inventory called
\* inventory_repository.save exactly once, with the item it returns, after the
\* existence checks and the find.
C6_SaveOnceAfterChecks ==
    \A p \in Procs :
        (result[p].kind = "ok" /\ result[p].op \in {"add", "remove"}) =>
            /\ saves[p] = <<result[p].item[1]>>
            /\ trace[p] = IF result[p].op = "add"
                          THEN <<CompanyExists, ProductExists, InventoryFind,
                                 InventorySave>>
                          ELSE <<CompanyExists, InventoryFind, InventorySave>>

\* One worker's latest call is a successful add, the other's a successful
\* remove.
C6_Witness ==
    \E p, o \in Procs : Succeeded(p, "add") /\ Succeeded(o, "remove")

\* C7: add_to_inventory that finds the pair absent, with a requested quantity
\* of 0 or more, goes on to save an item of exactly the requested quantity, and
\* its save on a pair still absent makes the pair present with exactly that
\* quantity and returns that item; a requested quantity of 0 creates a
\* zero-stock record.
C7_AddOnAbsentCreates ==
    [][\A p \in Procs :
          /\ (/\ pc[p] = "add_find" /\ pc'[p] # "add_find"
              /\ Stock(ReqPair(p)) = {} /\ req[p].quantity >= 0)
             => /\ pc'[p] = "add_save"
                /\ updated_item'[p] = Some(ItemOf(ReqPair(p), req[p].quantity))
                /\ inventory' = inventory
          /\ (/\ pc[p] = "add_save" /\ pc'[p] = "idle"
              /\ Stock(ReqPair(p)) = {})
             => /\ StockIn(inventory', ReqPair(p)) = {req[p].quantity}
                /\ result'[p] = Outcome("add",
                                  Return(ItemOf(ReqPair(p), req[p].quantity)))]_vars

\* An add of 0 returned an item of quantity 0 and the pair, to which nothing
\* else was added, has a record of quantity 0.
C7_Witness ==
    \E p \in Procs, k \in Pairs :
        /\ Succeeded(p, "add")
        /\ result[p] = Outcome("add", Return(ItemOf(k, 0)))
        /\ Stock(k) = {0}
        /\ ledger[k] = 0
        /\ calls = 1

\* C8: add_to_inventory that finds the pair present with quantity N goes on,
\* for a requested quantity q > 0, to save an item of quantity N + q, and for
\* q <= 0 (0 included) fails with InvalidInventoryError, the record staying at
\* N; its save on a record that still holds N leaves N + q and returns N + q.
C8_AddOnPresent ==
    [][\A p \in Procs :
          /\ (/\ pc[p] = "add_find" /\ pc'[p] # "add_find"
              /\ Stock(ReqPair(p)) # {})
             => /\ inventory' = inventory
                /\ IF req[p].quantity > 0
                   THEN /\ pc'[p] = "add_save"
                        /\ \E n \in Stock(ReqPair(p)) :
                              updated_item'[p] =
                                  Some(ItemOf(ReqPair(p), n + req[p].quantity))
                   ELSE /\ pc'[p] = "idle"
                        /\ result'[p].op = "add"
                        /\ result'[p].kind = InvalidInventoryError
          /\ (/\ pc[p] = "add_save" /\ pc'[p] = "idle"
              /\ \E n \in Stock(ReqPair(p)) :
                    updated_item[p][1].quantity = n + req[p].quantity)
             => \E n \in Stock(ReqPair(p)) :
                   /\ StockIn(inventory', ReqPair(p)) = {n + req[p].quantity}
                   /\ result'[p] = Outcome("add",
                          Return(ItemOf(ReqPair(p), n + req[p].quantity)))]_vars

\* An add of 1 to a record of 1 returned 2 and the record holds 2; an add of
\* a non-positive quantity to the record failed on the increment.
C8_Witness ==
    \E p, o \in Procs, k \in Pairs :
        /\ Succeeded(p, "add")
        /\ result[p] = Outcome("add", Return(ItemOf(k, 2)))
        /\ Stock(k) = {2} /\ ledger[k] = 2
        /\ inventory = {[company |-> k[1], product |-> k[2], quantity |-> 2]}
        /\ result[o] = Outcome("add",
                               Raise(InvalidInventoryError, <<"Increment must be positive">>))

\* C9: add_to_inventory fails with InvalidCompanyError when the company does
\* not exist, whatever the product, and goes on to the product check only for
\* a company that exists; there it fails with InvalidProductError when the
\* product does not exist for that company; in both failures the only port
\* calls made are the existence checks, so inventory_repository.find is not
\* called.
C9_AddExistenceChecks ==
    [][\A p \in Procs :
          /\ (pc[p] = "idle" /\ pc'[p] = "add_product")
             => /\ req'[p].company_nit \in companies
                /\ trace'[p] = <<CompanyExists>>
          /\ (/\ pc[p] = "idle" /\ pc'[p] = "idle"
              /\ result'[p] # result[p] /\ result'[p].op = "add")
             => /\ result'[p].kind = InvalidCompanyError
                /\ result'[p].msg[2] \notin companies
                /\ trace'[p] = <<CompanyExists>>
          /\ (pc[p] = "add_product" /\ pc'[p] # "add_product")
             => IF \E r \in products : /\ r.code = req[p].product_code
                                       /\ r.company = req[p].company_nit
                THEN pc'[p] = "add_find"
                ELSE /\ pc'[p] = "idle"
                     /\ req[p].company_nit \in companies
                     /\ result'[p].op = "add"
                     /\ result'[p].kind = InvalidProductError
                     /\ trace'[p] = <<CompanyExists, ProductExists>>
          /\ (result'[p].op = "add" /\ result'[p].kind \in
                  {InvalidCompanyError, InvalidProductError})
             => \A i \in 1 .. Len(trace'[p]) : trace'[p][i] # InventoryFind]_vars

\* No product is registered: one add failed on a company that does not exist
\* (company and product both missing), another on the product of a company
\* that exists; neither called find.
C9_Witness ==
    \E p, o \in Procs :
        /\ products = {}
        /\ result[p].op = "add" /\ result[p].kind = InvalidCompanyError
        /\ result[p].msg[2] \notin companies
        /\ result[o].op = "add" /\ result[o].kind = InvalidProductError
        /\ result[o].msg[4] \in companies
        /\ ~ InTrace(p, InventoryFind) /\ ~ InTrace(o, InventoryFind)

\* C10: every persisted inventory record pairs a company with a product that
\* this company owns, and the product check of add_to_inventory, for a code
\* registered under a different company only, fails with InvalidProductError
\* and creates no record.
C10_RecordsPairOwnProducts ==
    [][/\ \A r \in inventory' :
             \E pr \in products' : pr.code = r.product /\ pr.company = r.company
       /\ \A p \in Procs :
             (/\ pc[p] = "add_product" /\ pc'[p] # "add_product"
              /\ \E pr \in products : /\ pr.code = req[p].product_code
                                       /\ pr.company # req[p].company_nit)
             => /\ pc'[p] = "idle"
                /\ result'[p].op = "add"
                /\ result'[p].kind = InvalidProductError
                /\ inventory' = inventory]_vars

\* An add for company A of a code that company B owns was rejected: B has a
\* record for the code, A has none.
C10_Witness ==
    \E p \in Procs, a, b \in Nits, code \in Codes :
        /\ a # b /\ a \in companies
        /\ products = {[code |-> code, company |-> b]}
        /\ result[p] = Outcome("add", Raise(InvalidProductError,
               <<"Cannot manage inventory: Product '", code,
                 "' does not exist for company '", a, "'">>))
        /\ Stock(<<a, code>>) = {}
        /\ Stock(<<b, code>>) # {}

\* C11: remove_from_inventory fails with InvalidCompanyError when the company
\* does not exist and goes on to the find only for a company that exists; when
\* the find shows no record for the pair it fails with InvalidProductError
\* ("is not in inventory for company"); neither failure calls save or changes
\* the persisted inventory.
C11_RemoveMissingCompanyOrRecord ==
    [][\A p \in Procs :
          /\ (pc[p] = "idle" /\ pc'[p] = "remove_find")
             => req'[p].company_nit \in companies
          /\ (/\ pc[p] = "idle" /\ pc'[p] = "idle"
              /\ result'[p] # result[p] /\ result'[p].op = "remove")
             => /\ result'[p].kind = InvalidCompanyError
                /\ result'[p].msg[2] \notin companies
                /\ trace'[p] = <<CompanyExists>>
                /\ saves'[p] = <<>>
                /\ inventory' = inventory
          /\ (/\ pc[p] = "remove_find" /\ pc'[p] # "remove_find"
              /\ Stock(ReqPair(p)) = {})
             => /\ pc'[p] = "idle"
                /\ req[p].company_nit \in companies
                /\ result'[p].op = "remove"
                /\ result'[p].kind = InvalidProductError
                /\ result'[p].msg =
                       <<"Product '", req[p].product_code,
                         "' is not in inventory for company '",
                         req[p].company_nit, "'">>
                /\ trace'[p] = <<CompanyExists, InventoryFind>>
                /\ saves'[p] = <<>>
                /\ inventory' = inventory]_vars

\* Nothing is in inventory: one remove failed on a company that does not
\* exist, another on the missing record of a company that exists.
C11_Witness ==
    \E p, o \in Procs :
        /\ inventory = {}
        /\ result[p].op = "remove" /\ result[p].kind = InvalidCompanyError
        /\ result[p].msg[2] \notin companies
        /\ result[o].op = "remove" /\ result[o].kind = InvalidProductError
        /\ result[o].msg[4] \in companies
        /\ saves[p] = <<>> /\ saves[o] = <<>>

\* C12: check_inventory changes no table and never fails, whether or not the
\* company and the product exist: it calls inventory_repository.find only, and
\* returns the persisted quantity of the pair when the pair has a record and
\* None when it has none.
C12_CheckInventoryIsLenientRead ==
    [][\A p \in Procs :
          /\ (pc'[p] # pc[p] /\ "check_find" \in {pc[p], pc'[p]})
             => /\ companies' = companies /\ products' = products
                /\ inventory' = inventory /\ ledger' = ledger
          /\ (pc[p] = "check_find" /\ pc'[p] # "check_find")
             => /\ pc'[p] = "idle"
                /\ result'[p].op = "check" /\ result'[p].kind = "ok"
                /\ trace'[p] = <<InventoryFind>>
                /\ saves'[p] = <<>>
                /\ IF Stock(ReqPair(p)) = {}
                   THEN result'[p].item = <<None>>
                   ELSE \E n \in Stock(ReqPair(p)) : result'[p].item = <<<<n>>>>]_vars

\* The only record holds 0 and no product of the second company is known: one
\* check returned 0, the other returned None.
C12_Witness ==
    \E p, o \in Procs, k \in Pairs :
        /\ inventory = {[company |-> k[1], product |-> k[2], quantity |-> 0]}
        /\ companies = {k[1]}
        /\ result[p].op = "check" /\ result[p].kind = "ok"
        /\ result[p].item = <<<<0>>>>
        /\ result[o].op = "check" /\ result[o].kind = "ok"
        /\ result[o].item = <<None>>

\* C13: in every reachable state, under any interleaving of add_to_inventory
\* calls (two concurrent first adds of one absent pair included), a
\* (company_nit, product_code) pair has at most one persisted record.
C13_OneRecordPerPair ==
    \A k \in Pairs :
        Cardinality({r \in inventory : <<r.company, r.product>> = k}) <= 1

\* Both workers found the pair absent and added 1: both returned 1, 2 was
\* added in all, and the pair has the one record of quantity 1.
C13_Witness ==
    \E k \in Pairs :
        /\ \A p \in Procs :
              /\ Succeeded(p, "add")
              /\ result[p] = Outcome("add", Return(ItemOf(k, 1)))
        /\ ledger[k] = 2
        /\ inventory = {[company |-> k[1], product |-> k[2], quantity |-> 1]}

\* A text is the trimmed form of another: the other with its leading and
\* trailing whitespace taken off, and nothing else.
IsTrimOf(t, s) ==
    \E i, j \in 0 .. Len(s) :
        /\ i + j <= Len(s)
        /\ t = SubSeq(s, i + 1, Len(s) - j)
        /\ \A n \in (1 .. i) \cup ((Len(s) - j + 1) .. Len(s)) : s[n] \in Whitespace
        /\ t # <<>> => (t[1] \notin Whitespace /\ t[Len(t)] \notin Whitespace)

\* Two texts are the same up to the case of their letters.
SameButCase(t, m) ==
    /\ Len(t) = Len(m)
    /\ \A n \in 1 .. Len(t) :
          \/ t[n] = m[n]
          \/ \E a \in 1 .. Len(Lowercase) :
                {t[n], m[n]} = {Lowercase[a], Uppercase[a]}

\* The trimmed form of a text, among its substrings.
Trimmed(s) ==
    CHOOSE t \in {SubSeq(s, a, b) : a \in 1 .. Len(s) + 1, b \in 0 .. Len(s)} :
        IsTrimOf(t, s)

\* The members of Currency that a code names once trimmed, whatever the case
\* of its letters.
MembersFor(code) == {m \in {USD, EUR, COP} : SameButCase(Trimmed(code), m)}

FromCodeCalled == applied.fn = "from_code" /\ applied.done
FromCodeText == IF applied.args[1] = None THEN <<>> ELSE applied.args[1][1]

\* C19 as stated: from_code returns the member of {USD, EUR, COP} that the
\* trimmed, upper-cased argument names, and fails with UnsupportedCurrencyError
\* for every other argument, empty and None included.
C19_AsStated ==
    FromCodeCalled =>
        IF MembersFor(FromCodeText) # {}
        THEN /\ applied.out.kind = "ok"
             /\ applied.out.item[1] \in MembersFor(FromCodeText)
        ELSE applied.out.kind = "UnsupportedCurrencyError"

\* C19: from_code returns the member of {USD, EUR, COP} that the trimmed,
\* upper-cased argument names, and for every other argument, empty and None
\* included, raises the builtin ValueError "Unsupported currency code: "
\* followed by the trimmed, upper-cased argument.
C19_FromCodeNormalizesOrValueError ==
    FromCodeCalled =>
        IF MembersFor(FromCodeText) # {}
        THEN /\ applied.out.kind = "ok"
             /\ applied.out.item[1] \in MembersFor(FromCodeText)
        ELSE /\ applied.out.kind = ValueError
             /\ applied.out.item = None
             /\ applied.out.msg = <<"Unsupported currency code: ",
                                    Chars(upper(Trimmed(FromCodeText)))>>

\* from_code(" uS ") raised ValueError naming the normalized code US.
C19_Witness ==
    /\ FromCodeCalled
    /\ applied.args[1] = Some(<<" ", "u", "S", " ">>)
    /\ applied.out = Raise(ValueError, <<"Unsupported currency code: ", "US">>)

ProductCalled == applied.fn = "Product" /\ applied.done

\* None, empty, or whitespace only
Blank(value) ==
    value = None \/ \A n \in 1 .. Len(value[1]) : value[1][n] \in Whitespace

\* The entries of a prices argument, in the order of the mapping.
ItemsOf(prices) == IF prices = None THEN <<>> ELSE prices[1]

\* Two keys name one currency: equal once trimmed, whatever the case.
SameKey(a, b) == SameButCase(Trimmed(a), Trimmed(b))

\* Entry n holds a value that is no Money, or a key that an earlier entry has.
Offends(items, n) ==
    \/ items[n][2].type # "Money"
    \/ \E i \in 1 .. n - 1 : SameKey(items[i][1], items[n][1])

CodeRequired == Raise(InvalidProductError, <<"Code", " is required">>)
NameRequired == Raise(InvalidProductError, <<"Name", " is required">>)
FeatureRequired == Raise(InvalidProductError, <<"Feature", " is required">>)
NitRequired == Raise(InvalidProductError, <<"Company NIT", " is required">>)
PriceRequired == Raise(InvalidPriceError, <<"At least one price is required">>)
NotMoney == Raise(InvalidPriceError, <<"Price must be a Money object">>)
Duplicated ==
    Raise(InvalidPriceError, <<"Duplicated price for currency is not allowed">>)

\* The failure of the first rule of Product that the arguments violate, the
\* entries of prices taken one by one in the order of the mapping.
NoViolation == [kind |-> "ok", msg |-> <<>>, item |-> None]
FirstViolation(code, name, features, prices, company_nit) ==
    LET items == ItemsOf(prices)
        tuple == IF features = None THEN <<>> ELSE features[1]
    IN  IF Blank(code) THEN CodeRequired
        ELSE IF Blank(name) THEN NameRequired
        ELSE IF \E n \in 1 .. Len(tuple) : Blank(tuple[n]) THEN FeatureRequired
        ELSE IF items = <<>> THEN PriceRequired
        ELSE IF \E n \in 1 .. Len(items) : Offends(items, n)
        THEN LET first == CHOOSE n \in 1 .. Len(items) :
                             /\ Offends(items, n)
                             /\ \A i \in 1 .. n - 1 : ~ Offends(items, i)
             IN  IF items[first][2].type # "Money" THEN NotMoney ELSE Duplicated
        ELSE IF Blank(company_nit) THEN NitRequired
        ELSE NoViolation

\* C20 as stated: the failure of a Product construction is that of the first
\* rule violated in the order code, name, features, prices non-empty, every
\* price a Money, no duplicate normalized key, company_nit.
C20_AsStated ==
    ProductCalled =>
        LET code == applied.args[1]
            name == applied.args[2]
            features == IF applied.args[3] = None THEN <<>> ELSE applied.args[3][1]
            items == ItemsOf(applied.args[4])
            company_nit == applied.args[5]
        IN  IF Blank(code) THEN applied.out = CodeRequired
            ELSE IF Blank(name) THEN applied.out = NameRequired
            ELSE IF \E n \in 1 .. Len(features) : Blank(features[n])
            THEN applied.out = FeatureRequired
            ELSE IF items = <<>> THEN applied.out = PriceRequired
            ELSE IF \E n \in 1 .. Len(items) : items[n][2].type # "Money"
            THEN applied.out = NotMoney
            ELSE IF \E i, j \in 1 .. Len(items) :
                       i < j /\ SameKey(items[i][1], items[j][1])
            THEN applied.out = Duplicated
            ELSE IF Blank(company_nit) THEN applied.out = NitRequired
            ELSE applied.out.kind = "ok"

\* C20: the failure of a Product construction is that of the first rule
\* violated in the order code, name, features (first invalid feature), prices
\* non-empty, the entries of prices one by one in the order of the mapping
\* (the value is a Money, then the normalized key is none of an earlier
\* entry), company_nit; so a duplicate key is reported ahead of a non-Money
\* value of a later entry.
C20_FirstViolatedRuleIsReported ==
    ProductCalled =>
        LET violation == FirstViolation(applied.args[1], applied.args[2],
                                        applied.args[3], applied.args[4],
                                        applied.args[5])
        IN  IF violation = NoViolation
            THEN applied.out.kind = "ok"
            ELSE applied.out = violation

\* A Product with prices USD, usd and then an entry holding a float, and a
\* blank company_nit: the duplicate key is what is reported.
C20_Witness ==
    /\ ProductCalled
    /\ ~ Blank(applied.args[1]) /\ ~ Blank(applied.args[2])
    /\ applied.args[3] = None
    /\ applied.args[4] = Some(<<<<USD, Money100>>, <<<<"u", "s", "d">>, Money100>>,
                                <<<<" ", "e", "u", "r">>, Float100>>>>)
    /\ Blank(applied.args[5])
    /\ applied.out = Duplicated

RegisterStep == applied.fn = "register" /\ ~ applied.done /\ applied'.done
UseCaseStep == applied.fn = "RegisterProduct" /\ ~ applied.done /\ applied'.done
\* The company_nit argument of the call is the nit of a persisted company.
NamesCompany == applied.args[5] # None /\ Chars(applied.args[5][1]) \in companies
FailedToRegister == "Failed to register product: "

\* C14: register, called with a company_nit that company_repository.exists
\* denies, fails with InvalidCompanyError "... does not exist" whatever the
\* other arguments are, having called the port and nothing else: the Product
\* constructor is not invoked.
C14_RegisterRequiresCompany ==
    [][(RegisterStep /\ ~ NamesCompany) =>
          /\ applied'.out.kind = InvalidCompanyError
          /\ applied'.out.msg =
                 <<"Cannot register product: Company with NIT '",
                   Format(applied.args[5]), "' does not exist">>
          /\ applied'.out.events = <<CompanyExists>>
          /\ products' = products]_vars

\* register was called with a blank code and no prices for a company that is
\* not registered, while another company is.
C14_Witness ==
    /\ applied.fn = "register" /\ applied.done
    /\ Blank(applied.args[1]) /\ applied.args[4] = None
    /\ applied.args[5] = Some(NIT900200200)
    /\ companies = {"900100100"}
    /\ applied.out.kind = InvalidCompanyError
    /\ applied.out.events = <<CompanyExists>>

\* C15 as stated: whatever rule the arguments of register violate, the
\* failure is InvalidProductError "Failed to register product: " followed by
\* the message of the constructor's failure.
C15_AsStated ==
    [][LET violation == FirstViolation(applied.args[1], applied.args[2],
                                       applied.args[3], applied.args[4],
                                       applied.args[5])
       IN  (RegisterStep /\ NamesCompany /\ violation # NoViolation) =>
              /\ applied'.out.kind = InvalidProductError
              /\ applied'.out.msg = <<FailedToRegister>> \o violation.msg]_vars

\* C15: a failure that the Product constructor raises as InvalidProductError
\* (code, name, feature) is re-raised by register as InvalidProductError
\* "Failed to register product: " followed by the original message, from the
\* original error; a failure it raises as InvalidPriceError (empty prices,
\* non-Money price, duplicate currency) reaches the caller as it is, with no
\* prefix.
C15_ProductErrorsAreWrapped ==
    [][LET violation == FirstViolation(applied.args[1], applied.args[2],
                                       applied.args[3], applied.args[4],
                                       applied.args[5])
       IN  (RegisterStep /\ NamesCompany /\ violation # NoViolation) =>
              IF violation.kind = InvalidProductError
              THEN /\ applied'.out.kind = InvalidProductError
                   /\ applied'.out.msg = <<FailedToRegister>> \o violation.msg
                   /\ applied'.out.cause = Some(violation)
              ELSE /\ applied'.out.kind = InvalidPriceError
                   /\ applied'.out.msg = violation.msg
                   /\ applied'.out.cause = None]_vars

\* register, called for a registered company with a blank feature, raised
\* InvalidProductError "Failed to register product: Feature is required".
C15_Witness ==
    /\ applied.fn = "register" /\ applied.done
    /\ NamesCompany
    /\ applied.out.kind = InvalidProductError
    /\ applied.out.msg = <<FailedToRegister, "Feature", " is required">>
    /\ applied.out.cause = Some(FeatureRequired)

\* Every entry of the raw prices of a use case call becomes a Money: its key
\* names a member of Currency and its amount rounds to more than 0.
RawValid(prices) ==
    \A n \in 1 .. Len(prices) :
        /\ MembersFor(prices[n][1]) # {}
        /\ prices[n][2] # None
        /\ prices[n][2][1] >= 5

\* The prices the use case hands to register when every entry is valid: a
\* Money under each key as given.
AsMoney(prices) == Some([n \in 1 .. Len(prices) |-> <<prices[n][1], Money100>>])

\* C16: a failure that the Product constructor raises as InvalidPriceError
\* (empty prices, duplicate currency, non-Money price) reaches the caller of
\* register, and the caller of RegisterProduct, as InvalidPriceError with its
\* own message, nothing being persisted; and an error that register raises
\* from another one has the kind of the one it wraps.
C16_ErrorKindIsPreserved ==
    [][/\ LET violation == FirstViolation(applied.args[1], applied.args[2],
                                          applied.args[3], applied.args[4],
                                          applied.args[5])
          IN  (/\ RegisterStep /\ NamesCompany
               /\ violation.kind = InvalidPriceError)
              => /\ applied'.out.kind = InvalidPriceError
                 /\ applied'.out.msg = violation.msg
       /\ LET violation == FirstViolation(applied.args[1], applied.args[2],
                                          applied.args[3],
                                          AsMoney(applied.args[4]),
                                          applied.args[5])
          IN  (/\ UseCaseStep /\ NamesCompany /\ RawValid(applied.args[4])
               /\ violation.kind = InvalidPriceError)
              => /\ applied'.out.kind = InvalidPriceError
                 /\ applied'.out.msg = violation.msg
                 /\ products' = products
       /\ ((RegisterStep \/ UseCaseStep) /\ applied'.out.cause # None)
          => /\ applied'.out.msg[1] = FailedToRegister
             /\ applied'.out.cause[1].kind = applied'.out.kind]_vars

\* RegisterProduct was called with no prices for a registered company: the
\* constructor was invoked and InvalidPriceError "At least one price is
\* required" came back.
C16_Witness ==
    /\ applied.fn = "RegisterProduct" /\ applied.done
    /\ NamesCompany
    /\ applied.args[4] = <<>>
    /\ applied.out.kind = InvalidPriceError
    /\ applied.out.msg = <<"At least one price is required">>
    /\ applied.out.events = <<CompanyExists, NewProduct>>

C18_AsStated ==
    [][(UseCaseStep /\ applied'.out.kind # "ok") =>
          /\ applied'.out.kind \in {InvalidCompanyError, InvalidProductError,
                                    InvalidPriceError}
          /\ products' = products]_vars

\* ---- Product: the kinds of its failures, and duplicate price keys
ProductFailed == ProductCalled /\ applied.out.kind # "ok"

\* C21 as stated: a failed Product construction raises InvalidPriceError when
\* it is the empty-prices or the non-Money-price failure, and
\* InvalidProductError in every other case.
C21_AsStated ==
    ProductFailed =>
        IF applied.out.msg \in {PriceRequired.msg, NotMoney.msg}
        THEN applied.out.kind = InvalidPriceError
        ELSE applied.out.kind = InvalidProductError

\* C21: a failed Product construction raises InvalidPriceError when it is the
\* empty-prices, the non-Money-price or the duplicate-currency failure, and
\* InvalidProductError in every other case (code, name, feature, company_nit
\* required).
C21_PriceRulesRaisePriceErrors ==
    ProductFailed =>
        IF applied.out.msg \in {PriceRequired.msg, NotMoney.msg, Duplicated.msg}
        THEN applied.out.kind = InvalidPriceError
        ELSE /\ applied.out.kind = InvalidProductError
             /\ applied.out \in {CodeRequired, NameRequired, FeatureRequired,
                                 NitRequired}

\* A Product, valid but for prices USD and then usd: the duplicate is
\* reported, as an InvalidPriceError.
C21_Witness ==
    /\ ProductFailed
    /\ applied.args[4] = Some(<<<<USD, Money100>>, <<<<"u", "s", "d">>, Money100>>>>)
    /\ ~ Blank(applied.args[1]) /\ ~ Blank(applied.args[2])
    /\ applied.args[3] = None /\ ~ Blank(applied.args[5])
    /\ applied.out.kind = InvalidPriceError
    /\ applied.out.msg = <<"Duplicated price for currency is not allowed">>

\* Entry n of prices has the key of an earlier entry, up to trimming and case.
Repeats(items, n) == \E i \in 1 .. n - 1 : SameKey(items[i][1], items[n][1])

\* C22 as stated: a Product construction whose prices hold two keys that
\* normalize to one currency code fails with the duplicate-currency
\* InvalidPriceError, and a Product that is built has upper-case, pairwise
\* distinct price keys.
C22_AsStated ==
    ProductCalled =>
        LET items == ItemsOf(applied.args[4])
        IN  /\ (\E n \in 1 .. Len(items) : Repeats(items, n)) =>
                   applied.out = Duplicated
            /\ applied.out.kind = "ok" =>
                   LET built == applied.out.item[1].prices
                   IN  \A i, j \in 1 .. Len(built) :
                          /\ built[i][1] = upper(built[i][1])
                          /\ i # j => built[i][1] # built[j][1]

\* C22: a Product construction whose prices hold two keys that normalize to
\* one currency code always fails; the failure is the duplicate-currency
\* InvalidPriceError when code, name and features are valid and every entry
\* up to the first repeated key holds a Money, and the failure of that earlier
\* rule otherwise. A Product that is built has trimmed, upper-case, pairwise
\* distinct price keys.
C22_DuplicateKeysNeverBuild ==
    ProductCalled =>
        LET items == ItemsOf(applied.args[4])
            features == IF applied.args[3] = None THEN <<>> ELSE applied.args[3][1]
            repeated == {n \in 1 .. Len(items) : Repeats(items, n)}
        IN  /\ repeated # {} =>
                  LET first == CHOOSE n \in repeated : \A m \in repeated : n <= m
                      earlier ==
                          \/ Blank(applied.args[1]) \/ Blank(applied.args[2])
                          \/ \E n \in 1 .. Len(features) : Blank(features[n])
                          \/ \E n \in 1 .. first : items[n][2].type # "Money"
                  IN  /\ applied.out.kind # "ok"
                      /\ ~ earlier => applied.out = Duplicated
                      /\ earlier => applied.out \in {CodeRequired, NameRequired,
                                                     FeatureRequired, NotMoney}
            /\ applied.out.kind = "ok" =>
                   LET built == applied.out.item[1].prices
                   IN  /\ Len(built) = Len(items)
                       /\ \A i, j \in 1 .. Len(built) :
                             /\ built[i][1] = upper(built[i][1])
                             /\ IsTrimOf(built[i][1], built[i][1])
                             /\ SameKey(built[i][1], items[i][1])
                             /\ i # j => built[i][1] # built[j][1]

\* A Product with prices usd and then USD and nothing else wrong fails on the
\* duplicate.
C22_Witness ==
    /\ ProductCalled
    /\ applied.args[4] = Some(<<<<<<"u", "s", "d">>, Money100>>, <<USD, Money100>>>>)
    /\ ~ Blank(applied.args[1]) /\ ~ Blank(applied.args[2])
    /\ applied.args[3] = Some(<<>>) /\ ~ Blank(applied.args[5])
    /\ applied.out = Duplicated

\* ---- Money
\* C23 as stated: Money(amount, currency) raises InvalidPriceError for every
\* amount whose value rounded half up to 2 decimals is <= 0, and for every
\* amount whose rounded value is > 0 it returns a Money holding exactly the
\* rounded value; a Money that exists has an amount > 0.
C23_AsStated ==
    (applied.fn = "Money" /\ applied.done /\ applied.args[1] # None) =>
        LET thousandths == applied.args[1][1]
            near == {thousandths \div 10 + n : n \in -1 .. 1}
            \* the nearest number of hundredths, a tie going away from zero
            rounded == CHOOSE h \in near :
                          \A g \in near \ {h} :
                             LET dh == IF 10 * h >= thousandths
                                       THEN 10 * h - thousandths
                                       ELSE thousandths - 10 * h
                                 dg == IF 10 * g >= thousandths
                                       THEN 10 * g - thousandths
                                       ELSE thousandths - 10 * g
                             IN  \/ dh < dg
                                 \/ dh = dg /\ (IF thousandths >= 0 THEN h > g
                                                                    ELSE h < g)
        IN  /\ rounded <= 0 => applied.out.kind = InvalidPriceError
            /\ rounded > 0 =>
                   /\ applied.out.kind = "ok"
                   /\ applied.out.item[1].amount = rounded
                   /\ applied.out.item[1].currency = applied.args[2]
            /\ applied.out.kind = "ok" => applied.out.item[1].amount > 0

\* C24 as stated: for operands of one currency a.add(b) succeeds and equals
\* b.add(a), and a.add(b).add(c) equals a.add(b.add(c)); for operands of two
\* currencies a.add(b) raises InvalidPriceError; the operands stay as they
\* were.
C24_AsStated ==
    [][(applied.fn = "add" /\ ~ applied.done /\ applied'.done) =>
          LET a == applied.args[1]
              b == applied.args[2]
              c == applied.args[3]
              out == applied'.out
          IN  /\ applied'.args = applied.args
              /\ a.currency = b.currency =>
                     /\ out.ab.kind = "ok"
                     /\ out.ab.item[1].amount = a.amount + b.amount
                     /\ out.ba = out.ab
              /\ (a.currency = b.currency /\ b.currency = c.currency) =>
                     /\ out.ab_c.kind = "ok"
                     /\ out.a_bc = out.ab_c
              /\ a.currency # b.currency =>
                     out.ab = Raise(InvalidPriceError,
                        <<"Cannot add amounts with different currencies">>)
      ]_vars

\* ---- InventoryItem
\* C25: for an InventoryItem of quantity q >= 0, increase(d).decrease(d) with
\* d > 0 returns an item equal to the original; decrease(d) with d > q raises
\* InvalidInventoryError; increase(d) and decrease(d) with d <= 0 raise
\* InvalidInventoryError; the original item stays as it was.
C25_IncreaseDecreaseRoundTrip ==
    [][(applied.fn = "increase" /\ ~ applied.done /\ applied'.done) =>
          LET item == applied.args[1]
              d == applied.args[2]
              out == applied'.out
          IN  /\ applied'.args = applied.args
              /\ d > 0 =>
                     /\ out.increase.kind = "ok"
                     /\ out.increase.item[1].quantity = item.quantity + d
                     /\ out.back = Return(item)
              /\ d > item.quantity =>
                     out.decrease.kind = InvalidInventoryError
              /\ (d > 0 /\ d <= item.quantity) =>
                     /\ out.decrease.kind = "ok"
                     /\ out.decrease.item[1].quantity = item.quantity - d
              /\ d <= 0 =>
                     /\ out.increase.kind = InvalidInventoryError
                     /\ out.decrease.kind = InvalidInventoryError
                     /\ out.back.kind = InvalidInventoryError
      ]_vars

\* An item of quantity 1 and d = 2: the round trip gives the item back, and
\* decrease(2) on the item itself fails for want of stock.
C25_Witness ==
    /\ applied.fn = "increase" /\ applied.done
    /\ applied.args[1].quantity = 1 /\ applied.args[2] = 2
    /\ applied.out.back = Return(applied.args[1])
    /\ applied.out.increase.item[1].quantity = 3
    /\ applied.out.decrease = Raise(InvalidInventoryError, <<"Insufficient stock">>)

\* ---- Company
\* C26: Company(nit, name, address, phone) returns a Company when the trimmed
\* nit has at least 5 characters, name and address are not blank and the phone
\* is made of digits, '+' and spaces with a digit among them; each field is
\* stored trimmed and otherwise unchanged, the phone with its '+' and inner
\* spaces. Every other input raises InvalidCompanyError for the first field
\* that fails, in the order NIT, name, address, phone.
C26_CompanyValidatesAndTrims ==
    (applied.fn = "Company" /\ applied.done) =>
        LET nit == applied.args[1]
            name == applied.args[2]
            address == applied.args[3]
            phone == applied.args[4]
            short == Len(Trimmed(nit[1])) < 5
            ill == \/ \E n \in 1 .. Len(phone[1]) :
                         phone[1][n] \notin Digits \cup {"+", " "}
                   \/ \A n \in 1 .. Len(phone[1]) : phone[1][n] \notin Digits
            Required(field) == Raise(InvalidCompanyError, <<field, " is required">>)
        IN  IF Blank(nit) THEN applied.out = Required("NIT")
            ELSE IF short
            THEN applied.out = Raise(InvalidCompanyError,
                                     <<"NIT must have at least 5 characters">>)
            ELSE IF Blank(name) THEN applied.out = Required("Name")
            ELSE IF Blank(address) THEN applied.out = Required("Address")
            ELSE IF Blank(phone) THEN applied.out = Required("Phone")
            ELSE IF ill
            THEN applied.out = Raise(InvalidCompanyError,
                        <<"Phone must contain only digits and optional '+'.">>)
            ELSE /\ applied.out.kind = "ok"
                 /\ IsTrimOf(applied.out.item[1].nit, nit[1])
                 /\ IsTrimOf(applied.out.item[1].name, name[1])
                 /\ IsTrimOf(applied.out.item[1].address, address[1])
                 /\ IsTrimOf(applied.out.item[1].phone, phone[1])

\* A Company built from a nit and a phone with spaces around them: the phone
\* keeps its '+' and its inner space.
C26_Witness ==
    /\ applied.fn = "Company" /\ applied.done
    /\ applied.args[1] = Some(<<" ", "1", "2", "3", "4", "5", " ">>)
    /\ applied.args[4] = Some(<<"+", " ", "3">>)
    /\ applied.out.kind = "ok"
    /\ applied.out.item[1].nit = <<"1", "2", "3", "4", "5">>
    /\ applied.out.item[1].name = <<"T", "e", "a">>
    /\ applied.out.item[1].phone = <<"+", " ", "3">>

\* ---- UpdateCompany
\* C27: an update of a registered company keeps the persisted value of every
\* field passed as None and replaces a supplied field by its trimmed value;
\* when a supplied field is empty, blank or an ill-formed phone it raises
\* InvalidCompanyError and no row changes; the nit of the row and every other
\* row stay as they were.
C27_UpdateKeepsAbsentFields ==
    [][(applied' # applied /\ applied'.fn = "UpdateCompany") =>
          LET nit == applied'.args[1]
              name == applied'.args[2]
              address == applied'.args[3]
              phone == applied'.args[4]
              out == applied'.out
              before == {r \in companies : Some(r.nit) = nit}
              after == {r \in companies' : Some(r.nit) = nit}
              Empty(value) == value # None /\ Blank(value)
              ill == /\ phone # None
                     /\ \/ \E n \in 1 .. Len(phone[1]) :
                              phone[1][n] \notin Digits \cup {"+", " "}
                        \/ \A n \in 1 .. Len(phone[1]) : phone[1][n] \notin Digits
              Updated(value, old, new) ==
                  IF value = None THEN new = old ELSE IsTrimOf(new, value[1])
          IN  /\ companies' \ after = companies \ before
              /\ before = {} => (out.kind = DoesNotExist /\ companies' = companies)
              /\ before # {} =>
                    IF Empty(name) \/ Empty(address) \/ ill
                    THEN out.kind = InvalidCompanyError /\ companies' = companies
                    ELSE /\ out.kind = "ok"
                         /\ after = {out.item[1]}
                         /\ \A old \in before :
                               /\ Updated(name, old.name, out.item[1].name)
                               /\ Updated(address, old.address, out.item[1].address)
                               /\ Updated(phone, old.phone, out.item[1].phone)
      ]_vars

\* An update that supplies the name alone: the row has the trimmed new name
\* and the address and phone it was registered with.
C27_Witness ==
    /\ applied.fn = "UpdateCompany" /\ applied.out.kind = "ok"
    /\ applied.args = <<Some(NIT900100100), Some(<<" ", "B", "o", "l", "t", " ">>),
                        None, None>>
    /\ [nit |-> NIT900100100, name |-> <<"B", "o", "l", "t">>,
        address |-> <<"M", "a", "i", "n">>, phone |-> <<"+", "3">>] \in companies

\* ---- the inventory under concurrent calls, and the record of quantity 0
\* C28 as stated: the quantities successfully removed from a pair never
\* exceed the quantities successfully added to it, so two concurrent
\* remove_from_inventory calls whose quantities together exceed the stock do
\* not both succeed.
C28_AsStated == \A k \in Pairs : ledger[k] >= 0

\* C29: a record of quantity 0 is a present pair for every operation:
\* check_inventory that finds it returns 0 and not None; add_to_inventory that
\* finds it goes through increase (a positive quantity q gives an item of q to
\* save, a quantity <= 0 fails on the increment); remove_from_inventory of a
\* positive quantity that finds it fails with InvalidInventoryError
\* ("Insufficient stock"), not with the InvalidProductError of a pair not in
\* inventory; and no step of any operation takes the record of a pair away.
C29_ZeroStockIsPresent ==
    [][/\ inventory' # inventory =>
             \A k \in Pairs : Stock(k) # {} => StockIn(inventory', k) # {}
       /\ \A p \in Procs :
             (pc'[p] # pc[p] /\ Stock(ReqPair(p)) = {0}) =>
                /\ pc[p] = "check_find" =>
                      /\ result'[p].op = "check" /\ result'[p].kind = "ok"
                      /\ result'[p].item = <<<<0>>>>
                /\ (pc[p] = "add_find" /\ req[p].quantity > 0) =>
                      /\ pc'[p] = "add_save"
                      /\ updated_item'[p] = Some(ItemOf(ReqPair(p), req[p].quantity))
                /\ (pc[p] = "add_find" /\ req[p].quantity <= 0) =>
                      /\ pc'[p] = "idle"
                      /\ result'[p].op = "add"
                      /\ result'[p].kind = InvalidInventoryError
                      /\ result'[p].msg = <<"Increment must be positive">>
                /\ (pc[p] = "remove_find" /\ req[p].quantity > 0) =>
                      /\ pc'[p] = "idle"
                      /\ result'[p].op = "remove"
                      /\ result'[p].kind = InvalidInventoryError
                      /\ result'[p].msg = <<"Insufficient stock">>
                      /\ inventory' = inventory
      ]_vars

\* A pair was taken to 0 by an add of 1 and a remove of 1; a further remove
\* of 1 failed for want of stock, and the record is still there, holding 0.
C29_Witness ==
    \E p, o \in Procs, k \in Pairs :
        /\ Stock(k) = {0} /\ ledger[k] = 0
        /\ result[p] = Outcome("remove", Return(ItemOf(k, 0)))
        /\ result[o].op = "remove" /\ result[o].kind = InvalidInventoryError
        /\ result[o].msg = <<"Insufficient stock">>
        /\ trace[o] = <<CompanyExists, InventoryFind>>

\* C30: add_to_inventory with a negative quantity, company and product
\* existing, fails with InvalidInventoryError when its find shows the pair
\* absent (the InventoryItem constructor rejects the quantity) and when it
\* shows the pair present (increase rejects it); it never goes on to save, and
\* its steps leave the persisted inventory as it was.
C30_NegativeAddFails ==
    [][\A p \in Procs :
          /\ (pc'[p] # pc[p] /\ req[p].op = "add" /\ req[p].quantity < 0)
             => /\ pc'[p] # "add_save"
                /\ inventory' = inventory /\ ledger' = ledger
                /\ saves'[p] = <<>>
          /\ (pc[p] = "add_find" /\ pc'[p] # pc[p] /\ req[p].quantity < 0)
             => /\ pc'[p] = "idle"
                /\ result'[p].op = "add"
                /\ result'[p].kind = InvalidInventoryError
                /\ result'[p].msg =
                       IF Stock(ReqPair(p)) = {}
                       THEN <<"Quantity cannot be negative">>
                       ELSE <<"Increment must be positive">>
      ]_vars

\* One add of -1 failed on a pair with a record, another on a pair without
\* one; the record holds what it held and the other pair has none.
C30_Witness ==
    \E p, o \in Procs, k, j \in Pairs :
        /\ result[p] = Outcome("add", Raise(InvalidInventoryError,
                                            <<"Increment must be positive">>))
        /\ result[o] = Outcome("add", Raise(InvalidInventoryError,
                                            <<"Quantity cannot be negative">>))
        /\ inventory = {[company |-> k[1], product |-> k[2], quantity |-> 1]}
        /\ ledger[k] = 1 /\ ledger[j] = 0 /\ j # k

====
